---- MODULE Spec2Model ----
(***************************************************************************)
(* Model of the agent loader of agentduel_agents (base.py): load_agent and *)
(* get_agent_game, run against one agent source file.                      *)
(*                                                                         *)
(* The source file is described by what the two functions can observe of   *)
(* it: whether the path exists, whether its suffix is ".py", and the       *)
(* top-level names dir(module) yields after evaluation, in dir() order     *)
(* (sorted by name), and what evaluating its top-level code does.  What    *)
(* running a class constructor does is chosen when the loader runs it.     *)
(* Either can return normally, raise an Exception, or raise a              *)
(* BaseException that is no Exception (SystemExit from sys.exit(),         *)
(* KeyboardInterrupt), which "except Exception" does not catch.            *)
(*                                                                         *)
(* Only constructor runs made by the loader itself are counted; what the   *)
(* module's own top-level code instantiates is not the loader's doing.     *)
(* The name "Agent" is taken to be bound to a class of the module, never   *)
(* to AgentBase itself.                                                    *)
(***************************************************************************)
EXTENDS Integers, Sequences, FiniteSets, TLC

\* Largest number of top-level definitions of the agent module.
MaxDefs == 2

\* Python's None, as a value distinct from every string the model uses.
NoneV == "<None>"

\* GAME values a class can declare (None: no GAME attribute; "": falsy tag).
ClassTags == {NoneV, "", "liars-dice"}

\* Values of the expected_game argument (None is its default).
ExpectedGames == {NoneV, "", "liars-dice", "coin-flip"}

\* Python truthiness of an optional string: None and "" are falsy.
Truthy(x) == x # NoneV /\ x # ""

\* AgentBase, imported into the agent module: a type, exposes all four
\* callbacks, declares no GAME.
AgentBaseDef == [name |-> "other", isType |-> TRUE, isBase |-> TRUE, onTurn |-> TRUE, hooks |-> TRUE, game |-> NoneV]

\* A top-level definition as the loader sees it: its name ("Agent" or any
\* other name), isinstance(obj, type), obj is AgentBase, hasattr(obj,
\* "on_turn"), whether it exposes on_match_start/on_round_start/on_round_end
\* (defined or inherited from AgentBase), and getattr(obj, "GAME", None).
Definitions ==
    [name : {"Agent", "other"}, isType : {TRUE}, isBase : {FALSE}, onTurn : BOOLEAN, hooks : BOOLEAN, game : ClassTags]
    \cup [name : {"other"}, isType : {FALSE}, isBase : {FALSE}, onTurn : BOOLEAN, hooks : {FALSE}, game : {NoneV}]
    \cup {AgentBaseDef}

\* dir(module) of a module: at most MaxDefs definitions, names unique (one
\* "Agent" at most), AgentBase imported once at most.
DefLists ==
    {ds \in UNION {[1..n -> Definitions] : n \in 0..MaxDefs} :
        /\ Cardinality({i \in DOMAIN ds : ds[i].name = "Agent"}) <= 1
        /\ Cardinality({i \in DOMAIN ds : ds[i].isBase}) <= 1}

\* What spec.loader.exec_module(module) can do.
ExecOutcomes == {"ok", "Exception", "SystemExit"}

\* The agent source files: a missing path, an existing path of another
\* suffix, an existing .py module whose evaluation raises, or one that
\* evaluates and leaves its definitions.
Modules ==
    [exists : {FALSE}, py : BOOLEAN, exec : {"ok"}, defs : {<<>>}]
    \cup [exists : {TRUE}, py : {FALSE}, exec : {"ok"}, defs : {<<>>}]
    \cup [exists : {TRUE}, py : {TRUE}, exec : ExecOutcomes \ {"ok"}, defs : {<<>>}]
    \cup [exists : {TRUE}, py : {TRUE}, exec : {"ok"}, defs : DefLists]

\* What agent_class() can do: return an instance, raise, or return an
\* instance on which __init__ bound on_turn to a non-callable value.
CtorOutcomes == {"ok", "Exception", "SystemExit", "noncallable"}

VARIABLES mod, pc, expected, moduleLoaded, agentClass, evalCount, ctorRuns, sysModules, loadResult, peekResult

\* ---- Match Driver: state (spec sections 4.4, 5 and 7) ----

\* Rounds of a match (rounds_per_match) and turn phases of a round.
MaxRounds == 2
MaxTurns == 2

\* The matches the host may run and the handles the Loader has returned.
Matches == {"m1", "m2"}
Handles == {"h1", "h2"}

\* The states of the Driver's state machine.
DriverStates == {"NotStarted", "MatchActive", "RoundActive", "TurnPending", "RoundComplete", "MatchComplete"}

\* The four callbacks of the lifecycle contract.
Callbacks == {"on_match_start", "on_round_start", "on_turn", "on_round_end"}

\* What an on_turn call can do: return a well-formed action, return something
\* that is not an action, raise (a failed API call, json.loads, or round
\* state that on_round_start never set), or not return before the timeout
\* (a blocking network call, time.sleep).
TurnBehaviours == {"action", "malformed", "raise", "hang"}

\* CallbackError kinds the Driver records for a failed turn.
ErrorKind(b) ==
    CASE b = "malformed" -> "MalformedAction"
      [] b = "raise"     -> "Raised"
      [] b = "hang"      -> "Timeout"

\* A CallbackError: kind, offending phase and round number.
CallbackError(k, ph, r) == [kind |-> k, phase |-> ph, round |-> r]
NoError == CallbackError(NoneV, NoneV, 0)

VARIABLES
    scheduled,     \* matches the host runs
    dstate,        \* per match: state of the Driver's state machine
    handle,        \* per match: the AgentHandle it owns (NoneV before the start)
    rounds,        \* per match: rounds_per_match
    round,         \* per match: current round number
    turnsLeft,     \* per match: remaining phases of the current round
    call,          \* per match: callback in progress on its handle (NoneV if none)
    behaviour,     \* per match: what the on_turn in progress or just ended does / did
    forwarded,     \* per match: action forwarded to the engine for the pending turn
    errors,        \* per match: number of CallbackErrors recorded
    lastError,     \* per match: the last CallbackError recorded
    lastCall,      \* per match: last callback invoked on the handle
    roundEnds,     \* per match: number of on_round_end calls
    match_complete,\* per match: match_complete of the last RoundResult
    round_number,  \* agent: self.round_number, stored by on_round_start
    athlete        \* agent: round state set by on_round_start, read by on_turn

dvars == <<scheduled, dstate, handle, rounds, round, turnsLeft, call, behaviour, forwarded,
           errors, lastError, lastCall, roundEnds, match_complete, round_number, athlete>>

\* No match started: the matches of S are scheduled, match m with one of
\* the rounds_per_match of R[m].
DriverIdle(S, R) ==
    /\ scheduled = S
    /\ rounds \in {f \in [Matches -> 0..MaxRounds] : \A m \in Matches : IF m \in S THEN f[m] \in R[m] ELSE f[m] = 0}
    /\ dstate = [m \in Matches |-> "NotStarted"]
    /\ handle = [m \in Matches |-> NoneV]
    /\ round = [m \in Matches |-> 0]
    /\ turnsLeft = [m \in Matches |-> 0]
    /\ call = [m \in Matches |-> NoneV]
    /\ behaviour = [m \in Matches |-> NoneV]
    /\ forwarded = [m \in Matches |-> NoneV]
    /\ errors = [m \in Matches |-> 0]
    /\ lastError = [m \in Matches |-> NoError]
    /\ lastCall = [m \in Matches |-> NoneV]
    /\ roundEnds = [m \in Matches |-> 0]
    /\ match_complete = [m \in Matches |-> FALSE]
    /\ round_number = [m \in Matches |-> 0]
    /\ athlete = [m \in Matches |-> NoneV]

\* ---- example agents: state of the instance under test ----

\* Dicts are records over the keys the code reads; the value of a key is
\* <<v>> when the dict binds it to v and <<>> when the dict does not hold it
\* (d.get(k) then gives its default).
Absent == <<>>
Some(v) == <<v>>
Has(d, k) == d[k] # Absent

VARIABLES
    agent,         \* which example agent the instance is (NoneV: none built)
    self,          \* the instance's fields
    round_info,    \* argument of the last on_round_start call (Absent: none yet)
    first_turn,    \* no on_turn call has been made since that on_round_start
    game_state,    \* argument of the on_turn call that just returned
    action,        \* what that on_turn call returned
    apc,           \* where the instance is: between callbacks, or right after one returned
    fresh,         \* a second instance, constructed at the last on_round_start (Absent: none)
    played,        \* rounds played so far in the match (lifecycle order only)
    result,        \* argument of the last on_round_end call (Absent: none yet)
    history        \* the questions and answers the host recorded in the round

avars == <<agent, self, round_info, first_turn, game_state, action, apc, fresh, played, result, history>>

\* No example agent instantiated.
AgentsIdle ==
    /\ agent = NoneV
    /\ self = NoneV
    /\ round_info = Absent
    /\ first_turn = FALSE
    /\ game_state = NoneV
    /\ action = NoneV
    /\ apc = "off"
    /\ fresh = NoneV
    /\ played = 0
    /\ result = Absent
    /\ history = <<>>

lvars == <<mod, pc, expected, moduleLoaded, agentClass, evalCount, ctorRuns, sysModules, loadResult, peekResult>>

vars == <<lvars, dvars, avars>>

\* Identities of module objects: module_from_spec makes a new object at each
\* call, distinct from the one sys.modules still holds.
ModuleIds == {1, 2}

\* sys.modules, restricted to the key load_agent writes: the module object
\* registered under "user_agent", 0 while the key is absent.
NoModules == [user_agent |-> 0]

\* importlib.util.module_from_spec(spec): a fresh module object.
FreshModule(reg) == CHOOSE i \in ModuleIds : i # reg.user_agent

\* Outcomes of a call.  agent is the instance: its class (index in
\* mod.defs) and the state of its on_turn attribute.
NoAgent == [cls |-> 0, onTurn |-> "missing"]

NoResult == [kind |-> "none", detail |-> NoneV, agent |-> NoAgent]

Returned(a) == [kind |-> "handle", detail |-> NoneV, agent |-> a]

\* raise AgentLoadError(...): the kind names the raise site.  a is the
\* instance already built when the error is raised (NoAgent before).
LoadError(k, a) == [kind |-> "error", detail |-> k, agent |-> a]

\* An exception that leaves the call without being an AgentLoadError.
Escaped(e) == [kind |-> "escaped", detail |-> e, agent |-> NoAgent]

Value(t) == [kind |-> "value", detail |-> t, agent |-> NoAgent]

\* Least index among hits, 0 when there is none: where the for loop over
\* dir(module) stops (break / return) given the positions that pass its test.
FirstOf(hits) ==
    IF hits = {} THEN 0 ELSE CHOOSE i \in hits : \A j \in hits : i <= j

\* hasattr(module, "Agent")
HasAgent(ds) == \E i \in DOMAIN ds : ds[i].name = "Agent"

\* module.Agent
AgentIndex(ds) == CHOOSE i \in DOMAIN ds : ds[i].name = "Agent"

Init ==
    /\ mod \in Modules
    /\ pc = "idle"
    /\ expected = NoneV
    /\ moduleLoaded = FALSE
    /\ agentClass = 0
    /\ evalCount = 0
    /\ ctorRuns = 0
    /\ sysModules = NoModules
    /\ loadResult = NoResult
    /\ peekResult = NoResult
    /\ DriverIdle({}, [m \in Matches |-> {}])
    /\ AgentsIdle

\* ---------------------------------------------------------------- load_agent

\* FindAgentClass with the structural scan tried first and the name "Agent"
\* only as the fallback.
FindAgentClassScanFirst(ds) ==
    LET i == FirstOf({i \in DOMAIN ds : ds[i].isType /\ ~ds[i].isBase /\ ds[i].onTurn})
    IN  IF i # 0 THEN i ELSE IF HasAgent(ds) THEN AgentIndex(ds) ELSE 0

\* FindAgentClass without "obj is not AgentBase" in the scan.
FindAgentClassWithBase(ds) ==
    IF HasAgent(ds) THEN AgentIndex(ds)
    ELSE FirstOf({i \in DOMAIN ds : ds[i].isType /\ ds[i].onTurn})

\* The candidate of load_agent: module.Agent when the module has that name,
\* else the first class in dir() order that is not AgentBase and has
\* on_turn; 0 when agent_class stays None.
FindAgentClass(ds) ==
    IF HasAgent(ds) THEN AgentIndex(ds)
    ELSE FirstOf({i \in DOMAIN ds : ds[i].isType /\ ~ds[i].isBase /\ ds[i].onTurn})

\* GameMismatch without the truthiness test of agent_game.
GameMismatchNoTruthy(agent_game, expected_game) ==
    /\ Truthy(expected_game)
    /\ agent_game # expected_game

\* GameMismatch with the comparison inverted (== for !=).
GameMismatchInverted(agent_game, expected_game) ==
    /\ Truthy(expected_game)
    /\ Truthy(agent_game)
    /\ agent_game = expected_game

\* if expected_game and agent_game: if agent_game != expected_game: raise
GameMismatch(agent_game, expected_game) ==
    /\ Truthy(expected_game)
    /\ Truthy(agent_game)
    /\ agent_game # expected_game

\* IsInvocable without the callable() test: hasattr alone.
IsInvocableNameOnly(a) == a.onTurn # "missing"

\* not (not hasattr(agent, "on_turn") or not callable(agent.on_turn))
IsInvocable(a) == a.onTurn # "missing" /\ a.onTurn = "callable"

\* The instance agent_class() returns: on_turn is found on the class
\* unless __init__ rebound it on the instance.
Instance(ds, i, outcome) ==
    [cls |-> i,
     onTurn |-> IF outcome = "noncallable" THEN "noncallable"
                ELSE IF ds[i].onTurn THEN "callable" ELSE "missing"]

\* A caller invokes load_agent(path, expected_game).
StartLoad ==
    /\ pc \in {"idle", "l_done", "p_done"}
    /\ \E e \in ExpectedGames : expected' = e
    /\ pc' = "l_path"
    /\ moduleLoaded' = FALSE
    /\ agentClass' = 0
    /\ evalCount' = 0
    /\ ctorRuns' = 0
    /\ loadResult' = NoResult
    /\ UNCHANGED <<mod, sysModules, peekResult, dvars, avars>>

\* LoadCheckPath with the two checks in the other order.
LoadCheckPathSuffixFirst ==
    /\ pc = "l_path"
    /\ IF ~mod.py
       THEN pc' = "l_done" /\ loadResult' = LoadError("InvalidFormat", NoAgent)
       ELSE IF ~mod.exists
       THEN pc' = "l_done" /\ loadResult' = LoadError("NotFound", NoAgent)
       ELSE pc' = "l_exec" /\ UNCHANGED loadResult
    /\ UNCHANGED <<mod, expected, moduleLoaded, agentClass, evalCount, ctorRuns, sysModules, peekResult, dvars, avars>>

\* path.exists() and path.suffix checks.
LoadCheckPath ==
    /\ pc = "l_path"
    /\ IF ~mod.exists
       THEN pc' = "l_done" /\ loadResult' = LoadError("NotFound", NoAgent)
       ELSE IF ~mod.py
       THEN pc' = "l_done" /\ loadResult' = LoadError("InvalidFormat", NoAgent)
       ELSE pc' = "l_exec" /\ UNCHANGED loadResult
    /\ UNCHANGED <<mod, expected, moduleLoaded, agentClass, evalCount, ctorRuns, sysModules, peekResult, dvars, avars>>

\* The try block: the module object is registered as sys.modules["user_agent"]
\* and then evaluated; an Exception becomes an AgentLoadError, anything
\* else leaves load_agent as it is.
LoadExec ==
    /\ pc = "l_exec"
    /\ sysModules' = [sysModules EXCEPT !.user_agent = FreshModule(sysModules)]
    /\ evalCount' = evalCount + 1
    /\ CASE mod.exec = "ok" ->
               pc' = "l_find" /\ moduleLoaded' = TRUE /\ UNCHANGED loadResult
         [] mod.exec = "Exception" ->
               pc' = "l_done" /\ loadResult' = LoadError("ExecutionFailure", NoAgent) /\ UNCHANGED moduleLoaded
         [] mod.exec = "SystemExit" ->
               pc' = "l_done" /\ loadResult' = Escaped("SystemExit") /\ UNCHANGED moduleLoaded
    /\ UNCHANGED <<mod, expected, agentClass, ctorRuns, peekResult, dvars, avars>>

\* Find the agent class; none found is an error.
LoadFind ==
    /\ pc = "l_find"
    /\ agentClass' = FindAgentClass(mod.defs)
    /\ IF agentClass' = 0
       THEN pc' = "l_done" /\ loadResult' = LoadError("ContractViolation", NoAgent)
       ELSE pc' = "l_game" /\ UNCHANGED loadResult
    /\ UNCHANGED <<mod, expected, moduleLoaded, evalCount, ctorRuns, sysModules, peekResult, dvars, avars>>

\* Check the GAME property against expected_game.
LoadGameCheck ==
    /\ pc = "l_game"
    /\ IF GameMismatch(mod.defs[agentClass].game, expected)
       THEN pc' = "l_done" /\ loadResult' = LoadError("GameMismatch", NoAgent)
       ELSE pc' = "l_inst" /\ UNCHANGED loadResult
    /\ UNCHANGED <<mod, expected, moduleLoaded, agentClass, evalCount, ctorRuns, sysModules, peekResult, dvars, avars>>

\* agent = agent_class() in its try block, then the check of on_turn on
\* the instance and the return.
LoadInstantiate ==
    /\ pc = "l_inst"
    /\ ctorRuns' = ctorRuns + 1
    /\ pc' = "l_done"
    /\ \E outcome \in CtorOutcomes :
          CASE outcome = "Exception" ->
                  loadResult' = LoadError("ExecutionFailure", NoAgent)
            [] outcome = "SystemExit" ->
                  loadResult' = Escaped("SystemExit")
            [] OTHER ->
                  LET a == Instance(mod.defs, agentClass, outcome)
                  IN  loadResult' = IF IsInvocable(a) THEN Returned(a)
                                    ELSE LoadError("ContractViolation", a)
    /\ UNCHANGED <<mod, expected, moduleLoaded, agentClass, evalCount, sysModules, peekResult, dvars, avars>>

\* ------------------------------------------------------------ get_agent_game

\* The class get_agent_game reads GAME from: module.Agent, else the first
\* class in dir() order that has on_turn; 0 when the loop ends without one.
PeekClass(ds) ==
    IF HasAgent(ds) THEN AgentIndex(ds)
    ELSE FirstOf({i \in DOMAIN ds : ds[i].isType /\ ds[i].onTurn})

\* A caller invokes get_agent_game(path).
StartPeek ==
    /\ pc \in {"idle", "l_done", "p_done"}
    /\ pc' = "p_path"
    /\ expected' = NoneV
    /\ moduleLoaded' = FALSE
    /\ agentClass' = 0
    /\ evalCount' = 0
    /\ ctorRuns' = 0
    /\ peekResult' = NoResult
    /\ UNCHANGED <<mod, sysModules, loadResult, dvars, avars>>

\* if not path.exists() or not path.suffix == ".py": return None
PeekCheckPath ==
    /\ pc = "p_path"
    /\ IF ~mod.exists \/ ~mod.py
       THEN pc' = "p_done" /\ peekResult' = Value(NoneV)
       ELSE pc' = "p_exec" /\ UNCHANGED peekResult
    /\ UNCHANGED <<mod, expected, moduleLoaded, agentClass, evalCount, ctorRuns, sysModules, loadResult, dvars, avars>>

\* The module is evaluated under the name "user_agent_check", which is not
\* registered in sys.modules; "except Exception: pass" then return None.
PeekExec ==
    /\ pc = "p_exec"
    /\ evalCount' = evalCount + 1
    /\ CASE mod.exec = "ok" ->
               pc' = "p_find" /\ moduleLoaded' = TRUE /\ UNCHANGED peekResult
         [] mod.exec = "Exception" ->
               pc' = "p_done" /\ peekResult' = Value(NoneV) /\ UNCHANGED moduleLoaded
         [] mod.exec = "SystemExit" ->
               pc' = "p_done" /\ peekResult' = Escaped("SystemExit") /\ UNCHANGED moduleLoaded
    /\ UNCHANGED <<mod, expected, agentClass, ctorRuns, sysModules, loadResult, dvars, avars>>

\* PeekFind reading GAME from an instance of the class it found.
PeekFindInstantiating ==
    /\ pc = "p_find"
    /\ agentClass' = PeekClass(mod.defs)
    /\ ctorRuns' = IF agentClass' = 0 THEN ctorRuns ELSE ctorRuns + 1
    /\ peekResult' = Value(IF agentClass' = 0 THEN NoneV ELSE mod.defs[agentClass'].game)
    /\ pc' = "p_done"
    /\ UNCHANGED <<mod, expected, moduleLoaded, evalCount, sysModules, loadResult, dvars, avars>>

\* Return getattr(cls, "GAME", None) of the class found, None without one.
PeekFind ==
    /\ pc = "p_find"
    /\ agentClass' = PeekClass(mod.defs)
    /\ peekResult' = Value(IF agentClass' = 0 THEN NoneV ELSE mod.defs[agentClass'].game)
    /\ pc' = "p_done"
    /\ UNCHANGED <<mod, expected, moduleLoaded, evalCount, ctorRuns, sysModules, loadResult, dvars, avars>>

Next ==
    \/ StartLoad
    \/ LoadCheckPath
    \/ LoadExec
    \/ LoadFind
    \/ LoadGameCheck
    \/ LoadInstantiate
    \/ StartPeek
    \/ PeekCheckPath
    \/ PeekExec
    \/ PeekFind

Spec == Init /\ [][Next]_vars

\* ---- the example agents' callbacks, as far as the Driver can tell them apart ----

\* Agent.on_round_start: stores the round number and the round's state.
AgentOnRoundStart(m, r) ==
    /\ round_number' = [round_number EXCEPT ![m] = r]
    /\ athlete' = [athlete EXCEPT ![m] = "set"]

\* Agent.on_turn: reads the state on_round_start stored (self.athlete.get
\* raises while it is None), may call a remote service, may sleep.
OnTurnBehaviours(a) == IF a = NoneV THEN {"raise"} ELSE TurnBehaviours

\* ---- Match Driver: transitions (spec section 4.4) ----

\* A match that holds its handle: started and not yet complete.
Active(m) == handle[m] # NoneV /\ dstate[m] # "MatchComplete"

\* No active match other than m holds handle h.
HandleFree(m, h) == \A o \in Matches \ {m} : Active(o) => handle[o] # h

\* The Driver invokes callback c on the handle of match m.
Invoke(m, c) ==
    /\ call' = [call EXCEPT ![m] = c]
    /\ lastCall' = [lastCall EXCEPT ![m] = c]

\* The Driver records one CallbackError for the turn of match m.
Record(m, k) ==
    /\ errors' = [errors EXCEPT ![m] = @ + 1]
    /\ lastError' = [lastError EXCEPT ![m] = CallbackError(k, "on_turn", round[m])]

\* StartMatch without the test that the handle is owned by no other match.
StartMatchShared(m, h) ==
    /\ m \in scheduled
    /\ dstate[m] = "NotStarted"
    /\ call[m] = NoneV
    /\ handle' = [handle EXCEPT ![m] = h]
    /\ Invoke(m, "on_match_start")
    /\ UNCHANGED <<lvars, avars, scheduled, dstate, rounds, round, turnsLeft, behaviour, forwarded,
                   errors, lastError, roundEnds, match_complete, round_number, athlete>>

\* NotStarted --on_match_start-->: the match takes its handle and the
\* Driver invokes on_match_start.
StartMatch(m, h) ==
    /\ m \in scheduled
    /\ dstate[m] = "NotStarted"
    /\ call[m] = NoneV
    /\ HandleFree(m, h)
    /\ handle' = [handle EXCEPT ![m] = h]
    /\ Invoke(m, "on_match_start")
    /\ UNCHANGED <<lvars, avars, scheduled, dstate, rounds, round, turnsLeft, behaviour, forwarded,
                   errors, lastError, roundEnds, match_complete, round_number, athlete>>

\* A lifecycle hook returns and the Driver takes the transition it labels.
HookReturns(m) ==
    /\ call[m] \in {"on_match_start", "on_round_start", "on_round_end"}
    /\ dstate' = [dstate EXCEPT ![m] =
                    CASE call[m] = "on_match_start" -> "MatchActive"
                      [] call[m] = "on_round_start" -> "RoundActive"
                      [] call[m] = "on_round_end"   -> "RoundComplete"]
    /\ call' = [call EXCEPT ![m] = NoneV]
    /\ UNCHANGED <<lvars, avars, scheduled, handle, rounds, round, turnsLeft, behaviour, forwarded,
                   errors, lastError, lastCall, roundEnds, match_complete, round_number, athlete>>

\* StartRound that passes the round number without advancing it.
StartRoundSameNumber(m) ==
    /\ dstate[m] = "MatchActive"
    /\ call[m] = NoneV
    /\ round' = [round EXCEPT ![m] = IF @ = 0 THEN 1 ELSE @]
    /\ \E t \in 0..MaxTurns : turnsLeft' = [turnsLeft EXCEPT ![m] = t]
    /\ Invoke(m, "on_round_start")
    /\ AgentOnRoundStart(m, round'[m])
    /\ UNCHANGED <<lvars, avars, scheduled, dstate, handle, rounds, behaviour, forwarded,
                   errors, lastError, roundEnds, match_complete>>

\* MatchActive --on_round_start-->: the next round begins; the engine fixes
\* the round's phase sequence.
StartRound(m) ==
    /\ dstate[m] = "MatchActive"
    /\ call[m] = NoneV
    /\ round' = [round EXCEPT ![m] = @ + 1]
    /\ \E t \in 0..MaxTurns : turnsLeft' = [turnsLeft EXCEPT ![m] = t]
    /\ Invoke(m, "on_round_start")
    /\ AgentOnRoundStart(m, round'[m])
    /\ UNCHANGED <<lvars, avars, scheduled, dstate, handle, rounds, behaviour, forwarded,
                   errors, lastError, roundEnds, match_complete>>

\* InvokeTurn that also fires between rounds.
InvokeTurnAnyTime(m) ==
    /\ dstate[m] \in {"MatchActive", "RoundActive", "RoundComplete"}
    /\ call[m] = NoneV
    /\ turnsLeft[m] > 0 \/ dstate[m] # "RoundActive"
    /\ Invoke(m, "on_turn")
    /\ \E b \in OnTurnBehaviours(athlete[m]) : behaviour' = [behaviour EXCEPT ![m] = b]
    /\ UNCHANGED <<lvars, avars, scheduled, dstate, handle, rounds, round, turnsLeft, forwarded,
                   errors, lastError, roundEnds, match_complete, round_number, athlete>>

\* RoundActive --on_turn-->, while the round has remaining phases.
InvokeTurn(m) ==
    /\ dstate[m] = "RoundActive"
    /\ call[m] = NoneV
    /\ turnsLeft[m] > 0
    /\ Invoke(m, "on_turn")
    /\ \E b \in OnTurnBehaviours(athlete[m]) : behaviour' = [behaviour EXCEPT ![m] = b]
    /\ UNCHANGED <<lvars, avars, scheduled, dstate, handle, rounds, round, turnsLeft, forwarded,
                   errors, lastError, roundEnds, match_complete, round_number, athlete>>

\* The outcome of a turn that ended: the agent's action is forwarded, or a
\* default action is substituted and one CallbackError recorded.
Conclude(m, useAgent, k) ==
    /\ call' = [call EXCEPT ![m] = NoneV]
    /\ dstate' = [dstate EXCEPT ![m] = "TurnPending"]
    /\ IF useAgent
       THEN forwarded' = [forwarded EXCEPT ![m] = "agent"] /\ UNCHANGED <<errors, lastError>>
       ELSE forwarded' = [forwarded EXCEPT ![m] = "default"] /\ Record(m, k)
    /\ UNCHANGED <<lvars, avars, scheduled, handle, rounds, round, turnsLeft, behaviour,
                   lastCall, roundEnds, match_complete, round_number, athlete>>

\* TurnReturns of a Driver that stops trusting an agent after its first fault.
TurnReturnsPoisoned(m) ==
    /\ call[m] = "on_turn"
    /\ behaviour[m] # "hang"
    /\ Conclude(m, behaviour[m] = "action" /\ errors[m] = 0,
                IF behaviour[m] = "action" THEN "Raised" ELSE ErrorKind(behaviour[m]))

\* on_turn returns or raises: --> TurnPending with the action to resolve.
TurnReturns(m) ==
    /\ call[m] = "on_turn"
    /\ behaviour[m] # "hang"
    /\ Conclude(m, behaviour[m] = "action",
                IF behaviour[m] = "action" THEN NoneV ELSE ErrorKind(behaviour[m]))

\* TurnTimesOut of a Driver that keeps waiting for the callback.
TurnWaitsForever(m) ==
    /\ call[m] = "on_turn"
    /\ behaviour[m] = "hang"
    /\ UNCHANGED vars

\* The timeout of an on_turn that has not returned: the Driver stops
\* waiting and substitutes the default action.
TurnTimesOut(m) ==
    /\ call[m] = "on_turn"
    /\ behaviour[m] = "hang"
    /\ Conclude(m, FALSE, ErrorKind("hang"))

\* TurnPending --(engine resolves one turn)--> RoundActive.
ResolveTurn(m) ==
    /\ dstate[m] = "TurnPending"
    /\ dstate' = [dstate EXCEPT ![m] = "RoundActive"]
    /\ turnsLeft' = [turnsLeft EXCEPT ![m] = @ - 1]
    /\ behaviour' = [behaviour EXCEPT ![m] = NoneV]
    /\ forwarded' = [forwarded EXCEPT ![m] = NoneV]
    /\ UNCHANGED <<lvars, avars, scheduled, handle, rounds, round, call, errors, lastError,
                   lastCall, roundEnds, match_complete, round_number, athlete>>

\* EndRound whose RoundResult never announces the end of the match.
EndRoundNeverComplete(m) ==
    /\ dstate[m] = "RoundActive"
    /\ call[m] = NoneV
    /\ turnsLeft[m] = 0
    /\ Invoke(m, "on_round_end")
    /\ roundEnds' = [roundEnds EXCEPT ![m] = @ + 1]
    /\ match_complete' = [match_complete EXCEPT ![m] = FALSE]
    /\ UNCHANGED <<lvars, avars, scheduled, dstate, handle, rounds, round, turnsLeft, behaviour, forwarded,
                   errors, lastError, round_number, athlete>>

\* RoundActive --on_round_end-->, once the phases are exhausted; the
\* RoundResult announces whether rounds_per_match is reached.
EndRound(m) ==
    /\ dstate[m] = "RoundActive"
    /\ call[m] = NoneV
    /\ turnsLeft[m] = 0
    /\ Invoke(m, "on_round_end")
    /\ roundEnds' = [roundEnds EXCEPT ![m] = @ + 1]
    /\ match_complete' = [match_complete EXCEPT ![m] = (round[m] = rounds[m])]
    /\ UNCHANGED <<lvars, avars, scheduled, dstate, handle, rounds, round, turnsLeft, behaviour, forwarded,
                   errors, lastError, round_number, athlete>>

\* rounds_per_match reached or explicit match_complete.
MatchOver(m) == round[m] = rounds[m] \/ match_complete[m]

\* RoundComplete --(more rounds remain)--> MatchActive.
NextRound(m) ==
    /\ dstate[m] = "RoundComplete"
    /\ ~MatchOver(m)
    /\ dstate' = [dstate EXCEPT ![m] = "MatchActive"]
    /\ UNCHANGED <<lvars, avars, scheduled, handle, rounds, round, turnsLeft, call, behaviour, forwarded,
                   errors, lastError, lastCall, roundEnds, match_complete, round_number, athlete>>

\* RoundComplete --(rounds_per_match reached or match_complete)--> MatchComplete.
CompleteMatch(m) ==
    /\ dstate[m] = "RoundComplete"
    /\ MatchOver(m)
    /\ dstate' = [dstate EXCEPT ![m] = "MatchComplete"]
    /\ UNCHANGED <<lvars, avars, scheduled, handle, rounds, round, turnsLeft, call, behaviour, forwarded,
                   errors, lastError, lastCall, roundEnds, match_complete, round_number, athlete>>

NextDriver ==
    \/ \E m \in Matches, h \in Handles : StartMatch(m, h)
    \/ \E m \in Matches : HookReturns(m)
    \/ \E m \in Matches : StartRound(m)
    \/ \E m \in Matches : InvokeTurn(m)
    \/ \E m \in Matches : TurnReturns(m)
    \/ \E m \in Matches : TurnTimesOut(m)
    \/ \E m \in Matches : ResolveTurn(m)
    \/ \E m \in Matches : EndRound(m)
    \/ \E m \in Matches : NextRound(m)
    \/ \E m \in Matches : CompleteMatch(m)

\* A source that loads: one class Agent with the four callbacks.
PlayableSource ==
    [exists |-> TRUE, py |-> TRUE, exec |-> "ok",
     defs |-> <<[name |-> "Agent", isType |-> TRUE, isBase |-> FALSE, onTurn |-> TRUE, hooks |-> TRUE, game |-> NoneV]>>]

\* The loader at rest while matches are played.
LoaderIdle ==
    /\ mod = PlayableSource
    /\ pc = "idle"
    /\ expected = NoneV
    /\ moduleLoaded = FALSE
    /\ agentClass = 0
    /\ evalCount = 0
    /\ ctorRuns = 0
    /\ sysModules = NoModules
    /\ loadResult = NoResult
    /\ peekResult = NoResult

\* One match of 1..MaxRounds rounds.
InitDriver == LoaderIdle /\ AgentsIdle /\ DriverIdle({"m1"}, [m \in Matches |-> 1..MaxRounds])

SpecDriver == InitDriver /\ [][NextDriver]_vars

\* The Driver is one thread of control that keeps taking its next step; a
\* callback that returns does return.
SpecDriverFair == InitDriver /\ [][NextDriver]_vars /\ WF_vars(NextDriver)

\* Two matches run concurrently: one of 1..MaxRounds rounds, one of a
\* single round.
InitMatches ==
    LoaderIdle /\ AgentsIdle /\ DriverIdle(Matches, [m \in Matches |-> IF m = "m1" THEN 1..MaxRounds ELSE {1}])

SpecMatches == InitMatches /\ [][NextDriver]_vars

\* ---- example agents: multi_game_agent.py and aggressive_multi_agent.py ----

\* Dice in a hand, dice on the table, messages of a negotiation.
MaxDice == 2
MaxTotalDice == 3
MaxMessages == 2

\* d.get(k, default): the value under k, or the default when k is missing.
Get(d, k, default) == IF Has(d, k) THEN d[k][1] ELSE default

\* The two agents that declare no GAME.
MultiAgents == {"multi_game_agent", "aggressive_multi_agent"}

\* game_id values of a round: the two games the agents have handlers for
\* and one they have none for.
GameIds == {"split-or-steal", "liars-dice", "coin-flip"}

\* round_info of on_round_start: round_number and game_id, each possibly
\* missing, game_id possibly None.
RoundInfos == [round_number : {Absent, Some(1)}, game_id : {Absent, Some(NoneV)} \cup {Some(g) : g \in GameIds}]

\* your_dice: hands of 1..MaxDice dice.
Hands == UNION {[1..n -> 1..6] : n \in 1..MaxDice}

\* current_bid: quantity and face (a current_bid of None reads like a
\* missing one).
Bids == [quantity : {Some(q) : q \in 1..(MaxTotalDice + 1)}, face : {Some(f) : f \in 1..6}]

\* TurnState payloads: of split-or-steal (messages), of liars-dice
\* (your_dice, current_bid, total_dice), and of a game with neither field.
SplitStates ==
    [phase : {Some("negotiate"), Some("commit")}, messages : {Some(n) : n \in 0..MaxMessages},
     your_dice : {Absent}, current_bid : {Absent}, total_dice : {Absent}]

DiceStates ==
    {g \in [phase : {Some("bid"), Some("reveal")}, messages : {Absent},
            your_dice : {Some(h) : h \in Hands},
            current_bid : {Absent} \cup {Some(b) : b \in Bids},
            total_dice : {Some(t) : t \in 1..MaxTotalDice}] :
        /\ Len(g.your_dice[1]) <= g.total_dice[1]
        /\ g.phase = Some("reveal") => g.current_bid = Absent}

BareStates ==
    [phase : {Some("flip")}, messages : {Absent}, your_dice : {Absent}, current_bid : {Absent}, total_dice : {Absent}]

TurnStates == SplitStates \cup DiceStates \cup BareStates

\* The actions the handlers return, as dicts over the keys they use.
Message(t) == [type |-> Some("message"), text |-> Some(t), choice |-> Absent, action_type |-> Absent, quantity |-> Absent, face |-> Absent]
Commit(c) == [type |-> Some("commit"), text |-> Absent, choice |-> Some(c), action_type |-> Absent, quantity |-> Absent, face |-> Absent]
Challenge == [type |-> Absent, text |-> Absent, choice |-> Absent, action_type |-> Some("challenge"), quantity |-> Absent, face |-> Absent]
Bid(q, f) == [type |-> Absent, text |-> Absent, choice |-> Absent, action_type |-> Some("bid"), quantity |-> Some(q), face |-> Some(f)]

\* Agent.__init__ of both agents.
MultiNew == [round_number |-> 0, current_game_type |-> NoneV, all_game_rules |-> "empty"]

\* Agent.on_round_start of both agents.
MultiOnRoundStart(me, info) ==
    [me EXCEPT !.round_number = Get(info, "round_number", 1),
               !.current_game_type = Get(info, "game_id", "split-or-steal")]

\* Classify that looks at the payload on every turn.
ClassifyEveryTurn(me, g) ==
    IF Has(g, "your_dice") THEN "liars-dice" ELSE "split-or-steal"

\* The game on_turn dispatches on: the cached one, or the one detected from
\* the payload when none is cached.
Classify(me, g) ==
    IF me.current_game_type = NoneV
    THEN IF Has(g, "your_dice") THEN "liars-dice" ELSE "split-or-steal"
    ELSE me.current_game_type

\* _handle_split_or_steal: the set of actions it can return (one).
HandleSplitOrSteal(a, g) ==
    IF g.phase = Some("negotiate")
    THEN LET n == Get(g, "messages", 0)
             deceptive == <<"I promise", "Trust me", "Let's be fair", "I've never stolen">>
         IN  IF a = "multi_game_agent"
             THEN {Message(IF n = 0 THEN "Hello!" ELSE IF n = 1 THEN "I'm committed" ELSE "Agreed")}
             ELSE {Message(deceptive[IF n < 3 THEN n + 1 ELSE 4])}
    ELSE IF g.phase = Some("commit")
    THEN {Commit(IF a = "multi_game_agent" THEN "split" ELSE "steal")}
    ELSE {Message("")}


\* Number of dice of hand h showing face f, and the first die showing it.
CountFace(h, f) == Cardinality({i \in DOMAIN h : h[i] = f})
FirstDie(h, f) == CHOOSE i \in DOMAIN h : h[i] = f /\ \A j \in DOMAIN h : h[j] = f => i <= j

\* max(counts.keys(), key=lambda f: counts[f]): the non-wild face held most
\* often, the one met first in the hand among equals.
BestFace(h) ==
    CHOOSE f \in {h[i] : i \in DOMAIN h} \ {1} :
        \A g \in {h[i] : i \in DOMAIN h} \ {1, f} :
            \/ CountFace(h, f) > CountFace(h, g)
            \/ CountFace(h, f) = CountFace(h, g) /\ FirstDie(h, f) < FirstDie(h, g)

\* _handle_liars_dice, current_bid is None: the opening bids it can return.
OpeningBid(a, my_dice, total_dice) ==
    IF a = "multi_game_agent"
    THEN IF {my_dice[i] : i \in DOMAIN my_dice} \ {1} # {}
         THEN LET best_face == BestFace(my_dice)
                  sum == CountFace(my_dice, best_face) + CountFace(my_dice, 1)
              IN  {Bid(IF sum < total_dice THEN sum ELSE total_dice, best_face)}
         ELSE {Bid(2, 6)}
    ELSE LET half == (Len(my_dice) \div 2) + 1
         IN  {Bid(IF half > 2 THEN half ELSE 2, face) : face \in {4, 5, 6}}

\* RaiseOrChallenge that raises the face without looking for the top face.
RaiseOrChallengeAnyFace(a, bid_quantity, bid_face, total_dice) ==
    IF a = "multi_game_agent"
    THEN IF 2 * bid_quantity > total_dice
         THEN {Challenge}
         ELSE {Bid(bid_quantity, bid_face + 1)}
    ELSE IF bid_quantity >= total_dice - 1
         THEN {Challenge}
         ELSE {Challenge, Bid(bid_quantity, bid_face + 1)}

\* _handle_liars_dice, answering a bid: the actions it can return, over the
\* outcomes of random.random() and random.choice().
RaiseOrChallenge(a, bid_quantity, bid_face, total_dice) ==
    IF a = "multi_game_agent"
    THEN IF 2 * bid_quantity > total_dice
         THEN {Challenge}
         ELSE IF bid_face < 6
         THEN {Bid(bid_quantity, bid_face + 1)}
         ELSE IF bid_quantity < total_dice
         THEN {Bid(bid_quantity + 1, 2)}
         ELSE {Challenge}
    ELSE IF bid_quantity >= total_dice - 1
         THEN {Challenge}
         ELSE {Challenge} \cup
              (IF bid_face < 6
               THEN IF bid_quantity <= total_dice THEN {Bid(bid_quantity, bid_face + 1)} ELSE {Challenge}
               ELSE IF bid_quantity + 1 <= total_dice
                    THEN {Bid(bid_quantity + 1, new_face) : new_face \in {3, 4, 5, 6}}
                    ELSE {Challenge})

\* _handle_liars_dice.
HandleLiarsDice(a, g) ==
    IF g.phase # Some("bid")
    THEN {Challenge}
    ELSE LET my_dice == Get(g, "your_dice", <<>>)
             total_dice == Get(g, "total_dice", 10)
         IN  IF ~Has(g, "current_bid")
             THEN OpeningBid(a, my_dice, total_dice)
             ELSE LET current_bid == g.current_bid[1]
                  IN  RaiseOrChallenge(a, Get(current_bid, "quantity", 1), Get(current_bid, "face", 6), total_dice)

\* Agent.on_match_start: stores the rules it is given.
MultiMatchStart ==
    /\ apc = "idle"
    /\ self' = [self EXCEPT !.all_game_rules = "stored"]
    /\ UNCHANGED <<lvars, dvars, agent, round_info, first_turn, game_state, action, apc, fresh, played, result, history>>

\* Agent.on_round_start, for any round_info.
MultiRoundStart ==
    /\ apc = "idle"
    /\ \E ri \in RoundInfos :
          /\ self' = MultiOnRoundStart(self, ri)
          /\ round_info' = Some(ri)
    /\ first_turn' = TRUE
    /\ UNCHANGED <<lvars, dvars, agent, game_state, action, apc, fresh, played, result, history>>

\* Agent.on_turn, for any payload: caches the game if none is cached, then
\* returns what the handler of that game returns.
MultiTurn ==
    /\ apc = "idle"
    /\ \E g \in TurnStates :
          LET game == Classify(self, g)
          IN  /\ self' = [self EXCEPT !.current_game_type = game]
              /\ game_state' = g
              /\ action' \in (IF game = "liars-dice"
                              THEN HandleLiarsDice(agent, g)
                              ELSE HandleSplitOrSteal(agent, g))
    /\ apc' = "returned"
    /\ UNCHANGED <<lvars, dvars, agent, round_info, first_turn, fresh, played, result, history>>

\* Agent.on_round_end: prints the result, keeps the state.
MultiRoundEnd ==
    /\ apc = "idle"
    /\ apc' = "ended"
    /\ UNCHANGED <<lvars, dvars, agent, self, round_info, first_turn, game_state, action, fresh, played, result, history>>

\* The callback has returned and the host takes its result; the next
\* callback may follow.
MultiResume ==
    /\ apc \in {"returned", "ended"}
    /\ apc' = "idle"
    /\ first_turn' = (first_turn /\ apc # "returned")
    /\ game_state' = NoneV
    /\ action' = NoneV
    /\ UNCHANGED <<lvars, dvars, agent, self, round_info, fresh, played, result, history>>

NextMulti ==
    \/ MultiMatchStart
    \/ MultiRoundStart
    \/ MultiTurn
    \/ MultiRoundEnd
    \/ MultiResume

\* The example agent is constructed.
InitMulti ==
    /\ LoaderIdle
    /\ DriverIdle({}, [m \in Matches |-> {}])
    /\ agent \in MultiAgents
    /\ self = MultiNew
    /\ round_info = Absent
    /\ first_turn = FALSE
    /\ game_state = NoneV
    /\ action = NoneV
    /\ apc = "idle"
    /\ fresh = NoneV
    /\ played = 0
    /\ result = Absent
    /\ history = <<>>

SpecMulti == InitMulti /\ [][NextMulti]_vars

\* ------------------------------------------------------- tit-for-tat agent

\* result of on_round_end: the opponent's choice, possibly missing.
Results == [opponent_choice : {Absent, Some("split"), Some("steal")}]

\* round_info of round k of a split-or-steal match.
TitRoundInfos(k) == [round_number : {Some(k)}, game_id : {Absent, Some("split-or-steal")}]

\* Agent.__init__.
TitNew == [last_opponent_choice |-> NoneV, round_number |-> 0]

\* Agent.on_match_start.
TitOnMatchStart(me) == [me EXCEPT !.last_opponent_choice = NoneV]

\* Agent.on_round_start.
TitOnRoundStart(me, info) == [me EXCEPT !.round_number = Get(info, "round_number", 1)]

\* Agent.on_round_end.
TitOnRoundEnd(me, res) == [me EXCEPT !.last_opponent_choice = Get(res, "opponent_choice", NoneV)]

\* The commit choice without the test for a missing last choice.
TitChoiceNoNoneTest(me) ==
    IF me.round_number = 1 THEN "split" ELSE me.last_opponent_choice

\* on_turn, commit phase: the choice.
TitChoice(me) ==
    IF me.round_number = 1 \/ me.last_opponent_choice = NoneV
    THEN "split"
    ELSE me.last_opponent_choice

\* Agent.on_turn.
TitOnTurn(me, g) ==
    IF g.phase = Some("negotiate")
    THEN LET n == Get(g, "messages", 0)
         IN  IF me.round_number = 1 \/ me.last_opponent_choice = "split"
             THEN Message(IF n = 0 THEN "I believe in cooperation. Let's split and both benefit."
                          ELSE IF n = 1 THEN "I'll match your behavior. If you split, I split."
                          ELSE IF n = 2 THEN "We can build trust together. I'm planning to split."
                          ELSE "Deal. Let's both walk away with something.")
             ELSE Message(IF n = 0 THEN "You stole from me last time. Time for payback."
                          ELSE IF n = 1 THEN "I don't forget betrayal easily. Why should I trust you?"
                          ELSE IF n = 2 THEN "Convince me you've changed. I'm skeptical."
                          ELSE "We'll see if you've learned your lesson.")
    ELSE IF g.phase = Some("commit")
    THEN Commit(TitChoice(me))
    ELSE Message("")

\* on_match_start: the first callback, or the one after a match's last round.
TitMatchStart ==
    /\ apc \in {"new", "between"}
    /\ apc = "between" => played > 0
    /\ self' = TitOnMatchStart(self)
    /\ played' = 0
    /\ apc' = "between"
    /\ UNCHANGED <<lvars, dvars, agent, round_info, first_turn, game_state, action, fresh, result, history>>

\* on_round_start of the next round of the match, with its number.
TitRoundStart ==
    /\ apc = "between"
    /\ played < MaxRounds
    /\ \E info \in TitRoundInfos(played + 1) :
          /\ self' = TitOnRoundStart(self, info)
          /\ round_info' = Some(info)
    /\ first_turn' = TRUE
    /\ apc' = "idle"
    /\ UNCHANGED <<lvars, dvars, agent, game_state, action, fresh, played, result, history>>

\* on_turn with a split-or-steal payload.
TitTurn ==
    /\ apc = "idle"
    /\ \E g \in SplitStates :
          /\ game_state' = g
          /\ action' = TitOnTurn(self, g)
    /\ apc' = "returned"
    /\ UNCHANGED <<lvars, dvars, agent, self, round_info, first_turn, fresh, played, result, history>>

\* on_turn has returned; the round goes on.
TitResume ==
    /\ apc = "returned"
    /\ apc' = "idle"
    /\ first_turn' = FALSE
    /\ game_state' = NoneV
    /\ action' = NoneV
    /\ UNCHANGED <<lvars, dvars, agent, self, round_info, fresh, played, result, history>>

\* on_round_end with the round's result.
TitRoundEnd ==
    /\ apc = "idle"
    /\ \E res \in Results :
          /\ self' = TitOnRoundEnd(self, res)
          /\ result' = res
    /\ played' = played + 1
    /\ apc' = "between"
    /\ UNCHANGED <<lvars, dvars, agent, round_info, first_turn, game_state, action, fresh, history>>

NextTit ==
    \/ TitMatchStart
    \/ TitRoundStart
    \/ TitTurn
    \/ TitResume
    \/ TitRoundEnd

\* The agent is constructed; no match has started.
InitTit ==
    /\ LoaderIdle
    /\ DriverIdle({}, [m \in Matches |-> {}])
    /\ agent = "tit_for_tat_agent"
    /\ self = TitNew
    /\ round_info = Absent
    /\ first_turn = FALSE
    /\ game_state = NoneV
    /\ action = NoneV
    /\ apc = "new"
    /\ fresh = NoneV
    /\ played = 0
    /\ result = Absent
    /\ history = <<>>

SpecTit == InitTit /\ [][NextTit]_vars

\* ------------------------------------------------ question-asking agents

MaxAsks == 12

\* A text is its lowercased characters and whether it has capitals:
\* Cased("no.") is the text "No.", Plain("no.") the text "no.".
Cased(s) == [low |-> s, cased |-> TRUE]
Plain(s) == [low |-> s, cased |-> FALSE]

\* str.lower().
Lower(t) == Plain(t.low)

\* The substrings the agents test for ("cue" in text, text.startswith(...),
\* written "^yes" and "^no") that each lowercased text of the model holds.
CuesIn(low) ==
    CASE low = "are you having any shortness of breath?" -> {"breath", "eat"}
      [] low = "are you sensitive to light?" -> {"light", "sensitiv"}
      [] low = "can it be more than one color?" -> {"more than"}
      [] low = "can you describe the chest pain - is it sharp, dull, or like pressure?" -> {"chest", "pain", "pressure", "sharp"}
      [] low = "can you point to exactly where the pain is worst?" -> {"pain"}
      [] low = "chest pain" -> {"chest", "pain"}
      [] low = "did the breathing difficulty start suddenly or gradually?" -> {"breath", "breathing", "eat", "gradual", "sudden", "suddenly", "thing"}
      [] low = "did the pain start somewhere else and then move?" -> {"pain"}
      [] low = "did the pain start suddenly or gradually?" -> {"gradual", "pain", "sudden", "suddenly"}
      [] low = "do you have a cough? if so, is anything coming up?" -> {"cough", "thing"}
      [] low = "do you hear any wheezing when you breathe?" -> {"breath", "eat", "wheez"}
      [] low = "do you notice any wheezing or unusual sounds when breathing?" -> {"breath", "breathing", "eat", "thing", "wheez"}
      [] low = "does anything make it better or worse?" -> {"thing", "worse"}
      [] low = "does eating make the pain better or worse?" -> {"eat", "pain", "worse"}
      [] low = "does the pain change when you breathe deeply?" -> {"breath", "eat", "pain"}
      [] low = "does the pain go anywhere else, like your arm, shoulder, or jaw?" -> {"arm", "jaw", "pain", "shoulder"}
      [] low = "does the pain go to your arm, jaw, or back?" -> {"arm", "back", "jaw", "pain"}
      [] low = "does the pain go to your back or shoulder?" -> {"back", "pain", "shoulder"}
      [] low = "does the word contain the letter 'e'?" -> {"letter"}
      [] low = "does the word have more than 6 letters?" -> {"letter", "more than"}
      [] low = "does the word start with a letter between a and m?" -> {"letter"}
      [] low = "have you been sweating more than usual?" -> {"eat", "more than", "sweating"}
      [] low = "have you ever had similar pain before?" -> {"pain"}
      [] low = "have you felt nauseous or vomited?" -> {"vomit"}
      [] low = "have you had any chest pain along with the breathing trouble?" -> {"breath", "breathing", "chest", "eat", "pain", "thing"}
      [] low = "have you had any fever or chills?" -> {"chill", "fever"}
      [] low = "have you had any fever?" -> {"fever"}
      [] low = "have you had any nausea or felt like vomiting?" -> {"nausea", "vomit"}
      [] low = "have you had any nausea or vomiting?" -> {"nausea", "vomit"}
      [] low = "have you had any recent leg pain or swelling?" -> {"leg", "pain", "swell", "swelling"}
      [] low = "have you had any weakness or numbness on one side of your body?" -> {"numb", "one side", "weak"}
      [] low = "have you had anything like this before?" -> {"thing"}
      [] low = "have you noticed any fever?" -> {"fever"}
      [] low = "have you noticed any weakness, numbness, or difficulty speaking?" -> {"numb", "weak"}
      [] low = "how would you describe the headache - throbbing, constant, or like pressure?" -> {"head", "pressure", "throbb"}
      [] low = "is it a common word used in everyday conversation?" -> {"common", "everyday"}
      [] low = "is it a living thing?" -> {"living", "thing"}
      [] low = "is it an animal?" -> {"animal"}
      [] low = "is it getting worse, better, or staying the same?" -> {"worse"}
      [] low = "is it harder to breathe when lying down?" -> {"breath", "eat", "lying"}
      [] low = "is it something you can physically touch?" -> {"physical", "thing", "touch"}
      [] low = "is it something you might see outside?" -> {"thing"}
      [] low = "is it used for eating or cooking?" -> {"eat"}
      [] low = "is the pain constant or does it come and go?" -> {"pain"}
      [] low = "is the word a noun?" -> {"noun"}
      [] low = "is this the worst headache you've ever had?" -> {"head", "worst headache"}
      [] low = "is your neck stiff or painful to move?" -> {"neck", "neck stiff", "pain", "stiff"}
      [] low = "no." -> {"^no"}
      [] low = "severe headache" -> {"head"}
      [] low = "yes, and my face is drooping." -> {"^yes", "droop"}
      [] low = "yes, it is an animal." -> {"^yes", "animal", "it is"}
      [] low = "125 bpm" -> {"125"}
      [] low = "90/60" -> {"90/"}
      [] low = "89%" -> {"89%"}
      [] low = "103.1 F" -> {"103"}
      [] OTHER -> {}

\* The actions of the question-asking agents.
AskQuestion(t) == [action_type |-> "question", text |-> Some(t)]
Guess(t) == [action_type |-> "guess", text |-> Some(t)]
Pass == [action_type |-> "pass", text |-> Absent]

\* The substrings that the lowercased questions and answers of a history hold.
AllText(h) == UNION {CuesIn(Lower(h[i].question).low) \cup CuesIn(Lower(h[i].answer).low) : i \in DOMAIN h}

\* available[0] of the questions not asked yet, or the fallback question
\* when none is left.
FirstAvailable(questions, h, fallback) ==
    LET available == SelectSeq(questions, LAMBDA x : Lower(x) \notin {Lower(h[i].question) : i \in DOMAIN h})
    IN  IF available # <<>> THEN AskQuestion(available[1]) ELSE AskQuestion(fallback)

\* _generate_question of the ER-diagnosis agent: the question list of each
\* kind of chief complaint.
ErBaseQuestions(kind) ==
    CASE kind = "chest" ->
            <<Cased("can you describe the chest pain - is it sharp, dull, or like pressure?"),
             Cased("does the pain go anywhere else, like your arm, shoulder, or jaw?"),
             Cased("did the pain start suddenly or gradually?"),
             Cased("are you having any shortness of breath?"),
             Cased("have you been sweating more than usual?"),
             Cased("does the pain change when you breathe deeply?"),
             Cased("have you had any nausea or felt like vomiting?"),
             Cased("have you ever had similar pain before?")>>
      [] kind = "breath" ->
            <<Cased("did the breathing difficulty start suddenly or gradually?"),
             Cased("do you hear any wheezing when you breathe?"),
             Cased("is it harder to breathe when lying down?"),
             Cased("have you had any chest pain along with the breathing trouble?"),
             Cased("have you had any recent leg pain or swelling?"),
             Cased("do you have a cough? if so, is anything coming up?"),
             Cased("have you had any fever or chills?"),
             Cased("do you have a history of asthma or lung problems?")>>
      [] kind = "head" ->
            <<Cased("how would you describe the headache - throbbing, constant, or like pressure?"),
             Cased("is this the worst headache you've ever had?"),
             Cased("is your neck stiff or painful to move?"),
             Cased("are you sensitive to light?"),
             Cased("have you had any weakness or numbness on one side of your body?"),
             Cased("have you felt nauseous or vomited?"),
             Cased("have you had any changes in your vision?"),
             Cased("have you had any fever?")>>
      [] kind = "belly" ->
            <<Cased("can you point to exactly where the pain is worst?"),
             Cased("did the pain start somewhere else and then move?"),
             Cased("does eating make the pain better or worse?"),
             Cased("have you been able to have bowel movements?"),
             Cased("have you had any nausea or vomiting?"),
             Cased("have you noticed any fever?"),
             Cased("does the pain go to your back or shoulder?"),
             Cased("is the pain constant or does it come and go?")>>
      [] OTHER ->
            <<Cased("can you describe your main symptom in more detail?"),
             Cased("when did this start?"),
             Cased("is it getting worse, better, or staying the same?"),
             Cased("have you had any fever or chills?"),
             Cased("have you had any nausea or vomiting?"),
             Cased("does anything make it better or worse?"),
             Cased("have you had anything like this before?"),
             Cased("do you have any other symptoms?")>>

\* Agent.__init__ of the ER-diagnosis agent.
NoVitals == [HR |-> Absent, BP |-> Absent, SpO2 |-> Absent, Temp |-> Absent]

ErNoInfo ==
    [pain_location |-> NoneV, pain_type |-> NoneV, pain_radiation |-> NoneV, breathing_issue |-> NoneV,
     fever |-> NoneV, nausea |-> NoneV, onset |-> NoneV, category |-> NoneV]

ErNew == [round |-> 0, qa_history |-> <<>>, vital_signs |-> NoVitals, chief_complaint |-> Plain(""), info |-> ErNoInfo]

\* on_round_start that keeps what the last round learned.
ErOnRoundStartKeepInfo(me, info) ==
    [me EXCEPT !.round = 0, !.qa_history = <<>>, !.vital_signs = NoVitals, !.chief_complaint = Plain("")]

\* Agent.on_round_start, and on_round_end, which assigns the same values.
ErOnRoundStart(me, info) ==
    [round |-> 0, qa_history |-> <<>>, vital_signs |-> NoVitals, chief_complaint |-> Plain(""),
     info |-> [k \in DOMAIN me.info |-> NoneV]]

ErOnRoundEnd(me) ==
    [round |-> 0, qa_history |-> <<>>, vital_signs |-> NoVitals, chief_complaint |-> Plain(""),
     info |-> [k \in DOMAIN me.info |-> NoneV]]

\* _analyze_history, one group of tests each: the info i after the tests on
\* the substrings t of all_text.
ErPain(i, t) ==
    IF "crushing" \in t \/ "pressure" \in t \/ "squeezing" \in t
    THEN [i EXCEPT !.pain_type = "crushing", !.category = "cardiac"]
    ELSE IF "sharp" \in t \/ "stabbing" \in t THEN [i EXCEPT !.pain_type = "sharp"]
    ELSE IF "burning" \in t THEN [i EXCEPT !.pain_type = "burning"]
    ELSE IF "cramping" \in t \/ "crampy" \in t THEN [i EXCEPT !.pain_type = "cramping", !.category = "gi"]
    ELSE i

ErRadiation(i, t) ==
    IF "arm" \in t \/ "jaw" \in t THEN [i EXCEPT !.pain_radiation = "arm_jaw", !.category = "cardiac"]
    ELSE IF "back" \in t /\ "shoulder" \in t THEN [i EXCEPT !.pain_radiation = "back_shoulder", !.category = "gi"]
    ELSE IF "groin" \in t THEN [i EXCEPT !.pain_radiation = "groin", !.category = "other"]
    ELSE i

ErBreathing(i, t) ==
    IF "wheez" \in t THEN [i EXCEPT !.breathing_issue = "wheezing", !.category = "respiratory"]
    ELSE IF "sudden" \in t /\ "breath" \in t THEN [i EXCEPT !.breathing_issue = "sudden", !.category = "respiratory"]
    ELSE IF "lying" \in t /\ ("worse" \in t \/ "flat" \in t)
    THEN [i EXCEPT !.breathing_issue = "orthopnea", !.category = "cardiac"]
    ELSE i

ErSigns(i, t) ==
    LET fever == IF "fever" \in t \/ "chill" \in t THEN [i EXCEPT !.fever = "True"]
                 ELSE IF "no fever" \in t THEN [i EXCEPT !.fever = "False"]
                 ELSE i
        nausea == IF "nausea" \in t \/ "vomit" \in t THEN [fever EXCEPT !.nausea = "True"] ELSE fever
    IN  IF "sudden" \in t \/ "suddenly" \in t THEN [nausea EXCEPT !.onset = "sudden"]
        ELSE IF "gradual" \in t \/ "over days" \in t THEN [nausea EXCEPT !.onset = "gradual"]
        ELSE nausea

\* The specific condition indicators: of the tests that hold, the last one
\* in the code assigns the category.
ErSpecific(i, t) ==
    IF "thirst" \in t /\ "urination" \in t THEN [i EXCEPT !.category = "metabolic"]
    ELSE IF "hives" \in t \/ "swelling" \in t THEN [i EXCEPT !.category = "allergic"]
    ELSE IF "lower right" \in t \/ "right lower" \in t THEN [i EXCEPT !.category = "gi"]
    ELSE IF "droop" \in t \/ "slur" \in t \/ "one side" \in t THEN [i EXCEPT !.category = "neurological"]
    ELSE IF "stiff neck" \in t \/ "neck stiff" \in t THEN [i EXCEPT !.category = "neurological"]
    ELSE i

\* _analyze_history of the ER-diagnosis agent.
ErAnalyze(me) ==
    LET t == AllText(me.qa_history)
    IN  [me EXCEPT !.info =
            ErSpecific(ErSigns(ErBreathing(ErRadiation(ErPain(me.info, t), t), t), t), t)]

\* _generate_question of the ER-diagnosis agent.
ErGenerateQuestion(me) ==
    LET cc == me.chief_complaint
        base == ErBaseQuestions(IF "chest" \in CuesIn(cc.low) THEN "chest"
                                ELSE IF "breath" \in CuesIn(cc.low) \/ "breathing" \in CuesIn(cc.low) THEN "breath"
                                ELSE IF "head" \in CuesIn(cc.low) THEN "head"
                                ELSE IF "belly" \in CuesIn(cc.low) \/ "abdomen" \in CuesIn(cc.low) \/ "stomach" \in CuesIn(cc.low)
                                THEN "belly"
                                ELSE "general")
        q1 == IF me.info.category = "cardiac" /\ me.info.pain_radiation = NoneV
              THEN <<Cased("does the pain go to your arm, jaw, or back?")>> \o base ELSE base
        q2 == IF me.info.category = "respiratory" /\ me.info.breathing_issue = NoneV
              THEN <<Cased("do you notice any wheezing or unusual sounds when breathing?")>> \o q1 ELSE q1
        questions == IF me.info.category = "neurological"
                     THEN <<Cased("have you noticed any weakness, numbness, or difficulty speaking?")>> \o q2 ELSE q2
    IN  FirstAvailable(questions, me.qa_history, Cased("do you have any other symptoms i should know about?"))

\* The diagnoses _decide_guess scores, in the order of its dict.
ErDiagnoses ==
    <<"heart attack", "heart failure", "pulmonary embolism", "pneumonia", "asthma exacerbation", "stroke",
      "appendicitis", "cholecystitis", "pancreatitis", "kidney stones", "meningitis", "migraine", "sepsis",
      "anaphylaxis">>

\* The score a test adds when it holds.
Weight(c, n) == IF c THEN n ELSE 0

\* _decide_guess: any(x in vital for x in marks), for the vital sign under key.
VitalShows(v, key, marks) == CuesIn(Get(v, key, "")) \cap marks # {}

\* _decide_guess: the score of diagnosis d, t being the substrings of
\* all_text.
ErScore(me, t, d) ==
        CASE d = "heart attack" ->
                 Weight(me.info.pain_type = "crushing", 3) + Weight(me.info.pain_radiation = "arm_jaw", 3)
                 + Weight("sweating" \in t, 2) + Weight(VitalShows(me.vital_signs, "HR", {"120", "130", "125"}), 1)
          [] d = "heart failure" ->
                 Weight(me.info.breathing_issue = "orthopnea", 3) + Weight("swelling" \in t /\ ("leg" \in t \/ "ankle" \in t), 2)
                 + Weight("gasping" \in t /\ "night" \in t, 2)
          [] d = "pulmonary embolism" ->
                 Weight(me.info.onset = "sudden" /\ "breath" \in CuesIn(me.chief_complaint.low), 2) + Weight("leg" \in t /\ ("pain" \in t \/ "swell" \in t), 2)
                 + Weight(me.info.pain_type = "sharp" /\ "breath" \in t, 2) + Weight(VitalShows(me.vital_signs, "HR", {"120", "130", "125"}), 1) + Weight(VitalShows(me.vital_signs, "SpO2", {"88%", "89%", "90%", "91%"}), 2)
          [] d = "pneumonia" ->
                 Weight(me.info.fever = "True" /\ "cough" \in t, 3) + Weight("mucus" \in t \/ "phlegm" \in t, 2)
                 + Weight(VitalShows(me.vital_signs, "SpO2", {"88%", "89%", "90%", "91%"}), 1) + Weight(VitalShows(me.vital_signs, "Temp", {"102", "103", "104"}), 2)
          [] d = "asthma exacerbation" ->
                 Weight(me.info.breathing_issue = "wheezing", 3) + Weight(VitalShows(me.vital_signs, "SpO2", {"88%", "89%", "90%", "91%"}), 1)
          [] d = "stroke" ->
                 Weight("droop" \in t \/ "weak" \in t \/ "numb" \in t, 3) + Weight("slur" \in t \/ "speech" \in t, 2)
          [] d = "appendicitis" ->
                 Weight("lower right" \in t \/ "right lower" \in t, 3) + Weight("belly button" \in t \/ "moved" \in t, 2)
          [] d = "cholecystitis" ->
                 Weight("upper right" \in t \/ "right upper" \in t, 2) + Weight("fatty" \in t \/ "after eating" \in t, 2)
          [] d = "pancreatitis" ->
                 Weight("upper" \in t /\ "back" \in t, 2) + Weight("lean" \in t \/ "forward" \in t, 2)
          [] d = "kidney stones" ->
                 Weight(me.info.pain_radiation = "groin", 3) + Weight("wave" \in t \/ "comes and goes" \in t, 2) + Weight("flank" \in t, 2)
          [] d = "meningitis" ->
                 Weight("stiff" \in t /\ "neck" \in t, 3) + Weight("light" \in t /\ "sensitiv" \in t, 2)
                 + Weight("worst headache" \in t, 2) + Weight(VitalShows(me.vital_signs, "Temp", {"102", "103", "104"}), 2)
          [] d = "migraine" ->
                 Weight("throbb" \in t /\ "one side" \in t, 3) + Weight(me.info.nausea = "True" /\ "head" \in CuesIn(me.chief_complaint.low), 2)
          [] d = "sepsis" ->
                 Weight("confus" \in t, 2) + Weight(me.info.fever = "True" /\ "very sick" \in t, 2)
                 + Weight(VitalShows(me.vital_signs, "HR", {"120", "130", "125"}), 1) + Weight(VitalShows(me.vital_signs, "Temp", {"102", "103", "104"}), 2) + Weight(VitalShows(me.vital_signs, "BP", {"80/", "85/", "90/"}), 2)
          [] d = "anaphylaxis" ->
                 Weight("hives" \in t \/ "rash" \in t, 2) + Weight("throat" \in t /\ "tight" \in t, 3) + Weight(VitalShows(me.vital_signs, "BP", {"80/", "85/", "90/"}), 2)

\* _decide_guess: scores.
ErScores(me) ==
    LET t == AllText(me.qa_history)
    IN  [d \in {ErDiagnoses[k] : k \in DOMAIN ErDiagnoses} |-> ErScore(me, t, d)]

\* max(scores, key=scores.get): the first diagnosis with the highest score.
ErBest(scores) ==
    LET i == CHOOSE k \in DOMAIN ErDiagnoses :
                 /\ \A j \in DOMAIN ErDiagnoses : scores[ErDiagnoses[j]] <= scores[ErDiagnoses[k]]
                 /\ \A j \in 1..(k - 1) : scores[ErDiagnoses[j]] < scores[ErDiagnoses[k]]
    IN  ErDiagnoses[i]

\* _decide_guess of the ER-diagnosis agent.
ErDecideGuess(me) ==
    LET scores == ErScores(me)
        best_diagnosis == ErBest(scores)
        best_score == scores[best_diagnosis]
    IN  IF me.round <= 3 /\ best_score < 4 THEN Pass
        ELSE IF me.round > 3 /\ me.round <= 6 /\ best_score < 2 THEN Pass
        ELSE IF best_score >= 2 THEN Guess(Plain(best_diagnosis))
        ELSE Pass

\* Agent.on_turn of the ER-diagnosis agent: the instance after the call
\* and the action returned.
ErOnTurn(me, g) ==
    LET read == [me EXCEPT !.round = Get(g, "round_number", 1),
                           !.qa_history = Get(g, "your_qa_history", <<>>),
                           !.vital_signs = Get(g, "vital_signs", NoVitals),
                           !.chief_complaint = Lower(Get(g, "chief_complaint", Plain("")))]
        known == ErAnalyze(read)
    IN  [self |-> known,
         action |-> IF Get(g, "phase", "asking") = "asking"
                    THEN ErGenerateQuestion(known)
                    ELSE ErDecideGuess(known)]
\* _decide_guess of the passcode agent: the words it guesses.
GuessesFor(kind) ==
    CASE kind = "animal" -> <<"elephant", "dolphin", "butterfly", "penguin", "rabbit", "tiger">>
      [] kind = "food" -> <<"chocolate", "banana", "sandwich", "apple", "pizza", "bread">>
      [] kind = "place" -> <<"library", "mountain", "beach", "castle", "garden", "forest">>
      [] kind = "object" -> <<"umbrella", "keyboard", "mirror", "candle", "clock", "book">>
      [] OTHER -> <<"water", "music", "light", "paper", "stone", "glass", "dream", "night", "storm", "peace", "power", "magic">>

\* len(g) of a guess word.
WordLen(w) ==
    CASE w \in {"book"} -> 4
      [] w \in {"tiger", "apple", "pizza", "bread", "beach", "clock", "water", "music", "light", "paper", "stone", "glass", "dream", "night", "storm", "peace", "power", "magic"} -> 5
      [] w \in {"rabbit", "banana", "castle", "garden", "forest", "mirror", "candle"} -> 6
      [] w \in {"dolphin", "penguin", "library"} -> 7
      [] w \in {"elephant", "sandwich", "mountain", "umbrella", "keyboard"} -> 8
      [] w \in {"butterfly", "chocolate"} -> 9

\* g[0].lower() <= 'm' of a guess word.
FirstHalf(w) == w \in {"elephant", "dolphin", "butterfly", "chocolate", "banana", "apple", "bread", "library", "mountain", "beach", "castle", "garden", "forest", "keyboard", "mirror", "candle", "clock", "book", "music", "light", "glass", "dream", "magic"}

\* Agent.__init__ of the passcode agent.
PasscodeNoInfo ==
    [is_noun |-> NoneV, is_living |-> NoneV, is_tangible |-> NoneV, letter_count |-> Absent,
     first_half_alphabet |-> NoneV, common_word |-> NoneV, category |-> NoneV]

PasscodeNew == [round |-> 0, qa_history |-> <<>>, info |-> PasscodeNoInfo]

\* Agent.on_round_start, and on_round_end, which assigns the same values.
PasscodeOnRoundStart(me, info) == [round |-> 0, qa_history |-> <<>>, info |-> PasscodeNoInfo]

PasscodeOnRoundEnd(me) ==
    [round |-> 0, qa_history |-> <<>>,
     info |-> [k \in DOMAIN me.info |-> IF k = "letter_count" THEN Absent ELSE NoneV]]

\* int(words[i + 1]) for the word after "than" in a question.
NumberAfterThan(low) == IF low = "does the word have more than 6 letters?" THEN 6 ELSE 0

\* _analyze_history: the info after the entry qa.
PasscodeLearn(info, qa) ==
    LET qs == CuesIn(Lower(qa.question).low)
        as == CuesIn(Lower(qa.answer).low)
        is_yes == IF "^yes" \in as \/ "it is" \in as THEN "True" ELSE "False"
        i1 == IF "noun" \in qs THEN [info EXCEPT !.is_noun = is_yes]
              ELSE IF "living" \in qs \/ "alive" \in qs THEN [info EXCEPT !.is_living = is_yes]
              ELSE IF "touch" \in qs \/ "tangible" \in qs \/ "physical" \in qs THEN [info EXCEPT !.is_tangible = is_yes]
              ELSE IF "more than" \in qs /\ "letter" \in qs
              THEN LET num == NumberAfterThan(Lower(qa.question).low)
                   IN  [info EXCEPT !.letter_count = Some(<<IF is_yes = "True" THEN ">" ELSE "<=", num>>)]
              ELSE IF "first half" \in qs /\ "alphabet" \in qs THEN [info EXCEPT !.first_half_alphabet = is_yes]
              ELSE IF "common" \in qs \/ "everyday" \in qs THEN [info EXCEPT !.common_word = is_yes]
              ELSE info
    IN  IF "animal" \in as THEN [i1 EXCEPT !.category = "animal"]
        ELSE IF "food" \in as \/ "eat" \in as THEN [i1 EXCEPT !.category = "food"]
        ELSE IF "place" \in as \/ "location" \in as THEN [i1 EXCEPT !.category = "place"]
        ELSE IF "object" \in as \/ "thing" \in as THEN [i1 EXCEPT !.category = "object"]
        ELSE i1

\* _analyze_history: the entries of the history in their order.
RECURSIVE PasscodeAnalyze(_, _)
PasscodeAnalyze(info, h) ==
    IF h = <<>> THEN info ELSE PasscodeAnalyze(PasscodeLearn(info, Head(h)), Tail(h))

\* _generate_question of the passcode agent.
PasscodeGenerateQuestion(me) ==
    LET info == me.info
        Unless(known, q) == IF known THEN <<>> ELSE <<q>>
        questions ==
            Unless(info.is_noun # NoneV, Cased("is the word a noun?"))
            \o Unless(info.is_tangible # NoneV, Cased("is it something you can physically touch?"))
            \o Unless(info.is_living # NoneV, Cased("is it a living thing?"))
            \o Unless(info.letter_count # Absent, Cased("does the word have more than 6 letters?"))
            \o Unless(info.first_half_alphabet # NoneV, Cased("does the word start with a letter between a and m?"))
            \o Unless(info.common_word # NoneV, Cased("is it a common word used in everyday conversation?"))
            \o (IF info.is_living = "True"
                THEN <<Cased("is it an animal?"),
                       Cased("can it be found in the wild?"),
                       Cased("does it live in water?")>>
                ELSE IF info.is_living = "False" /\ info.is_tangible = "True"
                THEN <<Cased("is it typically found in a home?"),
                       Cased("is it used for eating or cooking?"),
                       Cased("can you hold it in one hand?")>>
                ELSE <<>>)
            \o <<Cased("does the word contain the letter 'e'?"),
                 Cased("is it something you might see outside?"),
                 Cased("would most adults know this word?"),
                 Cased("can it be more than one color?"),
                 Cased("is it associated with a specific profession?")>>
    IN  FirstAvailable(questions, me.qa_history, Cased("what category does this word belong to?"))

\* kept or guesses: the filtered list unless it is empty.
OrAll(kept, guesses) == IF kept # <<>> THEN kept ELSE guesses

\* _decide_guess of the passcode agent.
PasscodeDecideGuess(me) ==
    LET info == me.info
        known_facts == Cardinality({k \in DOMAIN info : info[k] # (IF k = "letter_count" THEN Absent ELSE NoneV)})
        byKnowledge == IF info.category # NoneV THEN GuessesFor(info.category)
                       ELSE IF info.is_living = "True" THEN GuessesFor("animal")
                       ELSE IF info.is_tangible = "True" THEN GuessesFor("object")
                       ELSE GuessesFor("common")
        num == info.letter_count[1][2]
        byLength == IF info.letter_count = Absent THEN byKnowledge
                    ELSE IF info.letter_count[1][1] = ">"
                    THEN OrAll(SelectSeq(byKnowledge, LAMBDA g : WordLen(g) > num), byKnowledge)
                    ELSE OrAll(SelectSeq(byKnowledge, LAMBDA g : WordLen(g) <= num), byKnowledge)
        guesses == IF info.first_half_alphabet = "True" THEN OrAll(SelectSeq(byLength, LAMBDA g : FirstHalf(g)), byLength)
                   ELSE IF info.first_half_alphabet = "False" THEN OrAll(SelectSeq(byLength, LAMBDA g : ~FirstHalf(g)), byLength)
                   ELSE byLength
    IN  IF me.round <= 3 /\ known_facts < 4 THEN Pass
        ELSE IF me.round > 3 /\ me.round <= 6 /\ known_facts < 2 THEN Pass
        ELSE Guess(Plain(guesses[(me.round % Len(guesses)) + 1]))

\* Agent.on_turn of the passcode agent: the instance after the call and the
\* action returned.
PasscodeOnTurn(me, g) ==
    LET read == [me EXCEPT !.round = Get(g, "round_number", 1),
                           !.qa_history = Get(g, "your_qa_history", <<>>)]
        known == [read EXCEPT !.info = PasscodeAnalyze(read.info, read.qa_history)]
    IN  [self |-> known,
         action |-> IF Get(g, "phase", "asking") = "asking"
                    THEN PasscodeGenerateQuestion(known)
                    ELSE PasscodeDecideGuess(known)]

\* Simple NIL-recruitment agent: Agent.__init__.
NilNew == [university |-> NoneV, athlete |-> NoneV, opponent_university |-> NoneV, pitch_count |-> 0]

\* Agent.on_round_start of the NIL agent; the profiles are named, "{}" is
\* the empty dict.
NilOnRoundStart(me, info) ==
    LET NoState == [your_university |-> Absent, opponent_university_name |-> Absent, athlete_profile |-> Absent]
        state == Get(info, "game_state", NoState)
    IN  [university |-> Get(state, "your_university", "{}"),
         opponent_university |-> Get(state, "opponent_university_name", "the other school"),
         athlete |-> Get(state, "athlete_profile", "{}"),
         pitch_count |-> 0]

\* Agent.on_round_end of the NIL agent.
NilOnRoundEnd(me) == NilNew

\* The pitch returned: the template of the phase filled from the stored
\* profiles.
Pitch(template, athlete_profile, your_university) ==
    [action_type |-> "pitch", text |-> Some(<<template, athlete_profile, your_university>>)]

\* Agent.on_turn of the NIL agent: the instance after the call and the
\* action returned (self.athlete.get fails on None and the call is left
\* by an exception).
NilOnTurn(me, g) ==
    LET counted == [me EXCEPT !.pitch_count = me.pitch_count + 1]
        phase == Get(g, "phase", "introduction")
    IN  [self |-> counted,
         action |-> IF me.athlete = NoneV THEN [action_type |-> "raised", text |-> Absent]
                    ELSE IF phase = "introduction" THEN Pitch("intro", me.athlete, me.university)
                    ELSE IF phase = "closing" THEN Pitch("closing", me.athlete, me.university)
                    ELSE Pitch("persuasion", me.athlete, me.university)]

\* The three agents and their callbacks.
AskAgents == {"passcode_simple_agent", "er_diagnosis_simple_agent", "nil_recruitment_simple_agent"}

AskNew(a) ==
    IF a = "passcode_simple_agent" THEN PasscodeNew
    ELSE IF a = "er_diagnosis_simple_agent" THEN ErNew
    ELSE NilNew

AskOnRoundStart(a, me, info) ==
    IF a = "passcode_simple_agent" THEN PasscodeOnRoundStart(me, info)
    ELSE IF a = "er_diagnosis_simple_agent" THEN ErOnRoundStart(me, info)
    ELSE NilOnRoundStart(me, info)

AskOnTurn(a, me, g) ==
    IF a = "passcode_simple_agent" THEN PasscodeOnTurn(me, g)
    ELSE IF a = "er_diagnosis_simple_agent" THEN ErOnTurn(me, g)
    ELSE NilOnTurn(me, g)

AskOnRoundEnd(a, me) ==
    IF a = "passcode_simple_agent" THEN PasscodeOnRoundEnd(me)
    ELSE IF a = "er_diagnosis_simple_agent" THEN ErOnRoundEnd(me)
    ELSE NilOnRoundEnd(me)

\* The rounds a host runs: what its TurnStates carry (a chief complaint and
\* vital signs in ER diagnosis), whether it records the questions
\* lowercased, and how many of the first questions are answered with yes;
\* for NIL recruitment, the round_info with its game_state.
PlainRound == [chief_complaint |-> Absent, vital_signs |-> Absent, lowercased |-> FALSE, yeses |-> 0]

AskRounds(a) ==
    IF a = "passcode_simple_agent"
    THEN {[r EXCEPT !.yeses = n] : r \in {PlainRound, [PlainRound EXCEPT !.lowercased = TRUE]}, n \in {0, 2, MaxAsks}}
    ELSE IF a = "er_diagnosis_simple_agent"
    THEN {[r EXCEPT !.yeses = n] : r \in {PlainRound,
                                           [chief_complaint |-> Some(Cased("chest pain")),
                                            vital_signs |-> Some([HR |-> Some("125 bpm"), BP |-> Some("90/60"), SpO2 |-> Some("89%"), Temp |-> Absent]),
                                            lowercased |-> FALSE, yeses |-> 0],
                                           [chief_complaint |-> Some(Cased("severe headache")),
                                            vital_signs |-> Some([HR |-> Absent, BP |-> Absent, SpO2 |-> Absent, Temp |-> Some("103.1 F")]),
                                            lowercased |-> TRUE, yeses |-> 0]}, n \in {0, 2, MaxAsks}}
    ELSE [game_state : {Absent} \cup
              {Some(s) : s \in [your_university : {Absent, Some("u1")},
                                opponent_university_name : {Absent, Some("rival")},
                                athlete_profile : {Absent, Some("a1"), Some("a2")}]}]

\* The answer the word keeper or the patient gives.
Answer(a, yes) ==
    IF ~yes THEN Cased("no.")
    ELSE IF a = "passcode_simple_agent" THEN Cased("yes, it is an animal.")
    ELSE Cased("yes, and my face is drooping.")

\* The TurnStates of the host: of the asking games, with the history of the
\* round so far, and of NIL recruitment.
AskStates(a, rnd, h) ==
    IF a = "nil_recruitment_simple_agent"
    THEN [phase : {Absent, Some("introduction"), Some("persuasion"), Some("closing")},
          round_number : {Absent}, your_qa_history : {Absent}, vital_signs : {Absent}, chief_complaint : {Absent}]
    ELSE [phase : {Absent, Some("asking"), Some("guessing")},
          round_number : {Some(Len(h) + 1)}, your_qa_history : {Some(h)},
          vital_signs : {rnd.vital_signs}, chief_complaint : {rnd.chief_complaint}]

\* The round the host is running (before any on_round_start, a plain one).
CurrentRound == IF round_info = Absent THEN PlainRound ELSE round_info[1]

\* on_match_start: prints only.
AskMatchStart ==
    /\ apc = "idle"
    /\ apc' = "hooked"
    /\ UNCHANGED <<lvars, dvars, agent, self, round_info, first_turn, game_state, action, fresh, played, result, history>>

\* on_round_start, for any round; a second instance is constructed and
\* given the same call.
AskRoundStart ==
    /\ apc = "idle"
    /\ \E info \in AskRounds(agent) :
          /\ self' = AskOnRoundStart(agent, self, info)
          /\ fresh' = Some(AskOnRoundStart(agent, AskNew(agent), info))
          /\ round_info' = Some(info)
    /\ apc' = "started"
    /\ UNCHANGED <<lvars, dvars, agent, first_turn, game_state, action, played, result, history>>

\* on_turn, with a TurnState of the round; the second instance gets the
\* same call.
AskTurn ==
    /\ apc = "idle"
    /\ agent = "nil_recruitment_simple_agent" => self.pitch_count < MaxTurns
    /\ \E g \in AskStates(agent, CurrentRound, history) :
          LET out == AskOnTurn(agent, self, g)
          IN  /\ self' = out.self
              /\ action' = out.action
              /\ game_state' = g
              /\ fresh' = IF fresh = Absent THEN Absent ELSE Some(AskOnTurn(agent, fresh[1], g).self)
    /\ apc' = "returned"
    /\ UNCHANGED <<lvars, dvars, agent, round_info, first_turn, played, result, history>>

\* on_round_end.
AskRoundEnd ==
    /\ apc = "idle"
    /\ self' = AskOnRoundEnd(agent, self)
    /\ fresh' = IF fresh = Absent THEN Absent ELSE Some(AskOnRoundEnd(agent, fresh[1]))
    /\ apc' = "ended"
    /\ UNCHANGED <<lvars, dvars, agent, round_info, first_turn, game_state, action, played, result, history>>

\* The callback has returned. The host records a question that was asked,
\* as written or lowercased, with the answer it got; after on_round_start
\* and on_round_end it starts a new history.
AskResume ==
    /\ apc \in {"hooked", "started", "returned", "ended"}
    /\ apc' = "idle"
    /\ game_state' = NoneV
    /\ action' = NoneV
    /\ IF apc = "returned" /\ action.action_type = "question" /\ Len(history) < MaxAsks
       THEN history' = Append(history, [question |-> IF CurrentRound.lowercased
                                                     THEN Lower(action.text[1])
                                                     ELSE action.text[1],
                                        answer |-> Answer(agent, Len(history) < CurrentRound.yeses)])
       ELSE history' = IF apc \in {"started", "ended"} THEN <<>> ELSE history
    /\ UNCHANGED <<lvars, dvars, agent, self, round_info, first_turn, fresh, played, result>>

NextAsk ==
    \/ AskMatchStart
    \/ AskRoundStart
    \/ AskTurn
    \/ AskRoundEnd
    \/ AskResume

\* An agent of the three is constructed.
InitAsk ==
    /\ LoaderIdle
    /\ DriverIdle({}, [m \in Matches |-> {}])
    /\ agent \in AskAgents
    /\ self = AskNew(agent)
    /\ round_info = Absent
    /\ first_turn = FALSE
    /\ game_state = NoneV
    /\ action = NoneV
    /\ apc = "idle"
    /\ fresh = Absent
    /\ played = 0
    /\ result = Absent
    /\ history = <<>>

SpecAsk == InitAsk /\ [][NextAsk]_vars

\* ------------------------------------------------------------------- claims

\* C1: when the candidate load_agent selected declares a non-empty GAME and
\* expected_game is non-empty and different, the call ends with the
\* GameMismatch load error and the candidate's constructor has not run.
C1_GameMismatchBeforeInstantiation ==
    (/\ pc \in {"l_game", "l_inst", "l_done"}
     /\ agentClass # 0
     /\ Truthy(mod.defs[agentClass].game)
     /\ Truthy(expected)
     /\ mod.defs[agentClass].game # expected)
    => /\ ctorRuns = 0
       /\ pc \in {"l_game", "l_done"}
       /\ pc = "l_done" => loadResult = LoadError("GameMismatch", NoAgent)

\* C1 witness: a load of a class tagged "liars-dice" with expected_game
\* "coin-flip" has ended with GameMismatch and no constructor run.
C1_Witness ==
    /\ pc = "l_done"
    /\ agentClass # 0
    /\ mod.defs[agentClass].game = "liars-dice"
    /\ expected = "coin-flip"
    /\ loadResult = LoadError("GameMismatch", NoAgent)
    /\ ctorRuns = 0

\* C2: a load of an evaluated module in which no definition exposes on_turn
\* ends with the ContractViolation load error.
C2_NoOnTurnIsContractViolation ==
    (/\ pc = "l_done"
     /\ moduleLoaded
     /\ \A i \in DOMAIN mod.defs : ~mod.defs[i].onTurn)
    => /\ loadResult.kind = "error"
       /\ loadResult.detail = "ContractViolation"

\* C3: for a module whose class named Agent has on_turn, the handle
\* load_agent returns is of a class whose GAME is the GAME that Agent
\* declares (None when it declares none).
C3_HandleTagIsDeclaredTag ==
    (/\ loadResult.kind = "handle"
     /\ HasAgent(mod.defs)
     /\ mod.defs[AgentIndex(mod.defs)].onTurn)
    => mod.defs[loadResult.agent.cls].game = mod.defs[AgentIndex(mod.defs)].game

\* C3 witness: a handle was returned for a module whose Agent is tagged
\* "liars-dice" and that holds another class with on_turn and another tag.
C3_Witness ==
    /\ loadResult.kind = "handle"
    /\ HasAgent(mod.defs)
    /\ mod.defs[AgentIndex(mod.defs)].game = "liars-dice"
    /\ \E i \in DOMAIN mod.defs :
          /\ mod.defs[i].name # "Agent"
          /\ mod.defs[i].isType
          /\ mod.defs[i].onTurn
          /\ mod.defs[i].game = NoneV

C5_PeekAgreesWithLoad ==
    (loadResult.kind = "handle" /\ peekResult.kind = "value")
    => peekResult.detail = mod.defs[loadResult.agent.cls].game

\* C6: a finished call of load_agent has returned a handle or raised a load
\* error, nothing else; it evaluated the module at most once and ran at most
\* one constructor.
C6_HandleOrOneLoadError ==
    pc = "l_done" =>
        /\ loadResult.kind \in {"handle", "error"}
        /\ evalCount <= 1
        /\ ctorRuns <= 1

\* C7: a returned handle has a callable on_turn, and an instance whose
\* on_turn is not callable is rejected with a load error after its
\* (single) instantiation.
C7_ReturnedHandleInvocable ==
    /\ loadResult.kind = "handle" => loadResult.agent.onTurn = "callable"
    /\ loadResult.agent.onTurn = "noncallable" =>
          /\ loadResult.kind = "error"
          /\ loadResult.detail = "ContractViolation"
          /\ pc = "l_done" => ctorRuns = 1

\* C7 witness: a load ended in a load error for an instance, built by one
\* constructor run, whose on_turn is not callable.
C7_Witness ==
    /\ pc = "l_done"
    /\ loadResult.kind = "error"
    /\ loadResult.agent.onTurn = "noncallable"
    /\ ctorRuns = 1

\* C8: a returned handle exposes on_turn and the three lifecycle hooks
\* on_match_start, on_round_start and on_round_end.
C8_HandleHasAllCallbacks ==
    loadResult.kind = "handle" =>
        /\ loadResult.agent.onTurn = "callable"
        /\ mod.defs[loadResult.agent.cls].hooks

\* C9: a finished call of get_agent_game has returned a value (a tag or
\* None); no exception left it.
C9_PeekNeverRaises ==
    pc = "p_done" => peekResult.kind = "value"

\* C10: a call of get_agent_game runs no constructor, and the value it
\* returns after evaluating the module is the class-level GAME of the class
\* it found (None when it found none).
C10_PeekNeverInstantiates ==
    pc \in {"p_path", "p_exec", "p_find", "p_done"} =>
        /\ ctorRuns = 0
        /\ (pc = "p_done" /\ moduleLoaded /\ peekResult.kind = "value") =>
              peekResult.detail =
                  IF agentClass = 0 THEN NoneV ELSE mod.defs[agentClass].game

\* C10 witness: get_agent_game returned "liars-dice" without any
\* constructor run.
C10_Witness ==
    /\ pc = "p_done"
    /\ peekResult = Value("liars-dice")
    /\ agentClass # 0
    /\ ctorRuns = 0

\* C11: load_agent fails with GameMismatch only when the candidate's GAME
\* and expected_game are both non-empty and differ; a class Agent that has
\* on_turn and no GAME gets to its instantiation for every expected_game
\* (and is returned unless the constructor itself misbehaves), and
\* get_agent_game returns None for it.
C11_MismatchOnlyWhenBothPresent ==
    LET ds == mod.defs
        plain == /\ mod.exec = "ok"
                 /\ HasAgent(ds)
                 /\ ds[AgentIndex(ds)].onTurn
                 /\ ds[AgentIndex(ds)].game = NoneV
    IN  /\ (pc = "l_done" /\ loadResult.kind = "error" /\ loadResult.detail = "GameMismatch") =>
              /\ agentClass # 0
              /\ Truthy(ds[agentClass].game)
              /\ Truthy(expected)
              /\ ds[agentClass].game # expected
        /\ (pc = "l_done" /\ plain) =>
              /\ ctorRuns = 1
              /\ loadResult.kind = "handle" \/ loadResult.agent.onTurn # "callable"
        /\ (pc = "p_done" /\ plain) => peekResult = Value(NoneV)

\* C11 witness: get_agent_game returned None and then load_agent with
\* expected_game "coin-flip" returned a handle, for a class Agent that has
\* only on_turn.
C11_Witness ==
    /\ pc = "l_done"
    /\ expected = "coin-flip"
    /\ loadResult.kind = "handle"
    /\ peekResult = Value(NoneV)
    /\ mod.defs[loadResult.agent.cls].name = "Agent"
    /\ mod.defs[loadResult.agent.cls].game = NoneV
    /\ ~mod.defs[loadResult.agent.cls].hooks

\* C12: a load of a missing path ends with NotFound (also when the suffix
\* is wrong), a load of an existing path that is not .py ends with
\* InvalidFormat, and in both cases nothing was evaluated or instantiated.
C12_PathCheckedBeforeEvaluation ==
    /\ pc = "l_path" => evalCount = 0 /\ ctorRuns = 0
    /\ (pc = "l_done" /\ ~mod.exists) => loadResult = LoadError("NotFound", NoAgent)
    /\ (pc = "l_done" /\ mod.exists /\ ~mod.py) => loadResult = LoadError("InvalidFormat", NoAgent)
    /\ (pc = "l_done" /\ (~mod.exists \/ ~mod.py)) =>
          /\ evalCount = 0
          /\ ctorRuns = 0
          /\ ~moduleLoaded

\* C12 witness: a load of a path that is missing and not .py has ended
\* with NotFound.
C12_Witness ==
    /\ pc = "l_done"
    /\ ~mod.exists
    /\ ~mod.py
    /\ loadResult = LoadError("NotFound", NoAgent)
    /\ evalCount = 0

\* C13: when evaluating the module raised, or the constructor raised (it
\* ran and built no instance), the load has ended with the
\* ExecutionFailure load error.
C13_FaultsBecomeExecutionFailure ==
    (/\ pc = "l_done"
     /\ \/ evalCount = 1 /\ mod.exec # "ok"
        \/ ctorRuns = 1 /\ loadResult.kind # "handle" /\ loadResult.agent = NoAgent)
    => loadResult = LoadError("ExecutionFailure", NoAgent)

\* C14: no step of load_agent changes process-wide shared state: the
\* entries of sys.modules stay as they were, so no entry is written and
\* none is overwritten by a later load.
C14_NoSharedRegistry == [][sysModules' = sysModules]_vars

\* C15: the callbacks one handle receives in a match follow match-start,
\* then (round-start, turns, round-end) repeated: every invocation follows
\* an allowed predecessor, on_turn is invoked only between the
\* on_round_start and the on_round_end of its round (so the agent's round
\* state is set), no callback is invoked once the match is MatchComplete,
\* and a match completes right after an on_round_end.
C15_CallbackOrder ==
    [][\A m \in Matches :
        LET invoked == call[m] = NoneV /\ call'[m] # NoneV
            order == {<<NoneV, "on_match_start">>,
                      <<"on_match_start", "on_round_start">>,
                      <<"on_round_start", "on_turn">>,
                      <<"on_round_start", "on_round_end">>,
                      <<"on_turn", "on_turn">>,
                      <<"on_turn", "on_round_end">>,
                      <<"on_round_end", "on_round_start">>}
        IN  /\ invoked => /\ <<lastCall[m], call'[m]>> \in order
                          /\ lastCall'[m] = call'[m]
                          /\ dstate[m] # "MatchComplete"
            /\ (invoked /\ call'[m] = "on_turn") => /\ athlete[m] # NoneV
                                                    /\ round_number[m] = round[m]
                                                    /\ roundEnds[m] = round[m] - 1
            /\ dstate'[m] = "MatchComplete" => /\ call'[m] = NoneV
                                               /\ lastCall'[m] = "on_round_end"
    ]_vars

\* C15 witness: on_turn is in progress in the second round of a match,
\* after the first round's on_round_end.
C15_Witness ==
    /\ call["m1"] = "on_turn"
    /\ round["m1"] = 2
    /\ roundEnds["m1"] = 1
    /\ athlete["m1"] # NoneV

\* C16: the round numbers a handle observes through on_round_start are
\* 1, 2, ..., rounds_per_match: the first is 1, each next one is the previous
\* plus 1, and the last one observed when the match completes is
\* rounds_per_match.
C16_RoundNumbers ==
    [][\A m \in Matches :
        LET started == call[m] = NoneV /\ call'[m] = "on_round_start"
        IN  /\ started => round_number'[m] = round_number[m] + 1
            /\ (started /\ lastCall[m] = "on_match_start") => round_number'[m] = 1
            /\ ~started => round_number'[m] = round_number[m]
            /\ dstate'[m] = "MatchComplete" => round_number'[m] = rounds[m]
    ]_vars

\* C16 witness: a match of MaxRounds rounds is complete and the last round
\* number its handle observed is MaxRounds.
C16_Witness ==
    /\ dstate["m1"] = "MatchComplete"
    /\ rounds["m1"] = MaxRounds
    /\ round_number["m1"] = MaxRounds

C18_RoundEndsAndFlag ==
    [][\A m \in Matches :
        LET ending == call[m] = NoneV /\ call'[m] = "on_round_end"
        IN  errors'[m] = 0 =>
              /\ ending => /\ roundEnds'[m] = roundEnds[m] + 1
                           /\ roundEnds'[m] <= rounds[m]
                           /\ match_complete'[m] = (roundEnds'[m] = rounds[m])
              /\ ~ending => roundEnds'[m] = roundEnds[m]
              /\ dstate'[m] = "MatchComplete" => /\ roundEnds'[m] = rounds[m]
                                                 /\ match_complete'[m]
    ]_vars

\* C18 witness: a match of MaxRounds rounds without a failed turn is
\* complete after MaxRounds on_round_end calls.
C18_Witness ==
    /\ dstate["m1"] = "MatchComplete"
    /\ errors["m1"] = 0
    /\ rounds["m1"] = MaxRounds
    /\ roundEnds["m1"] = MaxRounds
    /\ match_complete["m1"]

\* C19: an on_turn that does not return in time is ended by the Driver at
\* the timeout as a failed turn with the default action substituted and a
\* Timeout error recorded, and the match then eventually reaches
\* MatchComplete.
C19_TimeoutNeverStopsMatch ==
    /\ [][\A m \in Matches :
            (call[m] = "on_turn" /\ behaviour[m] = "hang" /\ call'[m] # call[m]) =>
                /\ call'[m] = NoneV
                /\ dstate'[m] = "TurnPending"
                /\ forwarded'[m] = "default"
                /\ lastError'[m] = CallbackError("Timeout", "on_turn", round[m])
       ]_vars
    /\ \A m \in Matches :
          (call[m] = "on_turn" /\ behaviour[m] = "hang") ~> (dstate[m] = "MatchComplete")

\* C19 witness: a match in which the last failed turn was a timeout in the
\* last round has completed.
C19_Witness ==
    /\ dstate["m1"] = "MatchComplete"
    /\ lastError["m1"] = CallbackError("Timeout", "on_turn", MaxRounds)

\* C20: on every handle at most one callback is in progress, a callback is
\* invoked on a match's handle only when none is in progress there, and
\* no two matches that are active at the same time hold the same handle.
C20_SequentialCallbacks ==
    [][/\ \A h \in Handles : Cardinality({m \in Matches : handle'[m] = h /\ call'[m] # NoneV}) <= 1
       /\ \A m \in Matches : call[m] # NoneV => call'[m] \in {call[m], NoneV}
       /\ \A m, o \in Matches :
             (m # o /\ handle'[m] # NoneV /\ dstate'[m] # "MatchComplete"
                    /\ handle'[o] # NoneV /\ dstate'[o] # "MatchComplete")
             => handle'[m] # handle'[o]
    ]_vars

\* C20 witness: two matches run at the same time, each with an on_turn in
\* progress on its own handle, the second on a handle an earlier holder
\* could also have taken.
C20_Witness ==
    /\ call["m1"] = "on_turn"
    /\ call["m2"] = "on_turn"
    /\ handle["m1"] = "h2"
    /\ handle["m2"] = "h1"

\* C21: in the multi-game agents, once current_game_type has a value,
\* no on_turn and no on_round_end changes it, whatever the payload holds;
\* only on_round_start assigns another game.
C21_GameFixedWithinRound ==
    [][/\ (apc = "idle" /\ apc' # "idle" /\ self.current_game_type # NoneV) =>
              self'.current_game_type = self.current_game_type
       /\ apc # "idle" => self'.current_game_type = self.current_game_type
       /\ self'.current_game_type # self.current_game_type =>
              \/ self.current_game_type = NoneV /\ apc' = "returned"
              \/ round_info' # Absent /\ first_turn'
                   /\ self'.current_game_type = Get(round_info'[1], "game_id", "split-or-steal")
    ]_vars

\* C21 witness: an on_turn with a liars-dice payload has returned in a
\* round whose game is split-or-steal, and the game is still
\* split-or-steal.
C21_Witness ==
    /\ apc = "returned"
    /\ round_info # Absent
    /\ round_info[1].game_id = Some("split-or-steal")
    /\ Has(game_state, "your_dice")
    /\ self.current_game_type = "split-or-steal"

\* C22: when no game is cached and the payload holds no field that
\* identifies a game (neither your_dice nor messages), on_turn does not
\* return an action of either handler.
C22_NoGuessForUnclassifiable ==
    [][(/\ apc = "idle"
        /\ apc' = "returned"
        /\ self.current_game_type = NoneV
        /\ ~Has(game_state', "your_dice")
        /\ ~Has(game_state', "messages"))
       => (action'.type = Absent /\ action'.action_type = Absent)
    ]_vars

\* C23: in a round whose on_round_start carried no game_id, a first turn
\* whose payload holds your_dice is answered by the liars-dice handler:
\* the action has action_type bid or challenge and no split-or-steal type.
C23_DiceClassifiedByStructure ==
    (/\ apc = "returned"
     /\ first_turn
     /\ round_info # Absent
     /\ ~Has(round_info[1], "game_id")
     /\ Has(game_state, "your_dice"))
    => (/\ action.action_type \in {Some("bid"), Some("challenge")}
        /\ action.type = Absent)

\* C24: in a round whose on_round_start supplied game_id g, every on_turn
\* is answered by the handler of g and by no other game's handler.
C24_TurnForwardedToGameHandler ==
    (/\ apc = "returned"
     /\ round_info # Absent
     /\ Has(round_info[1], "game_id")
     /\ round_info[1].game_id # Some(NoneV))
    => LET g == round_info[1].game_id[1]
       IN  /\ g # "liars-dice" => action.action_type = Absent
           /\ g # "split-or-steal" => action.type = Absent

\* C28: when the liars-dice handler answers a bid-phase turn that carries
\* a current bid, the action is a challenge, or a bid strictly higher than
\* the current one with quantity at most total_dice and face in 2..6.
C28_RaiseIsLegal ==
    (/\ apc = "returned"
     /\ self.current_game_type = "liars-dice"
     /\ game_state.phase = Some("bid")
     /\ Has(game_state, "current_bid")
     /\ Has(game_state, "total_dice"))
    => \/ action = Challenge
       \/ LET q == game_state.current_bid[1].quantity[1]
              f == game_state.current_bid[1].face[1]
          IN  /\ action.action_type = Some("bid")
              /\ action.quantity # Absent /\ action.face # Absent
              /\ \/ action.quantity[1] = q /\ action.face[1] > f
                 \/ action.quantity[1] > q
              /\ action.quantity[1] <= game_state.total_dice[1]
              /\ action.face[1] \in 2..6

\* C28 witness: the aggressive agent answered a bid on face 6 with a bid of
\* one more die.
C28_Witness ==
    /\ apc = "returned"
    /\ agent = "aggressive_multi_agent"
    /\ self.current_game_type = "liars-dice"
    /\ Has(game_state, "current_bid")
    /\ game_state.current_bid[1].face = Some(6)
    /\ action.action_type = Some("bid")
    /\ action.quantity[1] = game_state.current_bid[1].quantity[1] + 1

\* C29: the opening bid of the liars-dice handler (bid phase, no current
\* bid, a hand of 1..total_dice dice) has a quantity in 1..total_dice and a
\* face in 2..6.
C29_OpeningBidIsLegal ==
    (/\ apc = "returned"
     /\ self.current_game_type = "liars-dice"
     /\ game_state.phase = Some("bid")
     /\ ~Has(game_state, "current_bid")
     /\ Has(game_state, "your_dice")
     /\ Has(game_state, "total_dice"))
    => /\ action.action_type = Some("bid")
       /\ action.quantity # Absent /\ action.face # Absent
       /\ action.quantity[1] \in 1..game_state.total_dice[1]
       /\ action.face[1] \in 2..6


\* C25: driven in lifecycle order with round numbers 1, 2, ..., the
\* tit-for-tat agent commits split in round 1 and, in a later round, the
\* opponent_choice that on_round_end reported for the round before (split
\* when the result held none); its choice is always split or steal.
C25_CooperateThenMirror ==
    (apc = "returned" /\ game_state.phase = Some("commit"))
    => /\ action = Commit(IF played = 0 THEN "split" ELSE Get(result, "opponent_choice", "split"))
       /\ action.choice \in {Some("split"), Some("steal")}

\* C25 witness: in round 2 the agent committed steal after a round 1 that
\* ended with the opponent's steal.
C25_Witness ==
    /\ apc = "returned"
    /\ game_state.phase = Some("commit")
    /\ played = 1
    /\ result.opponent_choice = Some("steal")
    /\ action = Commit("steal")


\* C26: in the ER-diagnosis agent, a guessing-phase turn with round_number
\* 7 or higher returns a guess, never the pass action.
C26_LateRoundsAlwaysGuess ==
    (/\ agent = "er_diagnosis_simple_agent"
     /\ apc = "returned"
     /\ game_state.phase = Some("guessing")
     /\ game_state.round_number[1] >= 7)
    => action.action_type = "guess"

\* C27: the question the passcode or ER-diagnosis agent returns in the
\* asking phase differs, ignoring letter case, from the question of every
\* entry of the history it was given.
C27_NeverRepeatsQuestion ==
    (/\ agent \in {"passcode_simple_agent", "er_diagnosis_simple_agent"}
     /\ apc = "returned"
     /\ game_state.phase \in {Absent, Some("asking")})
    => /\ action.action_type = "question"
       /\ \A i \in DOMAIN game_state.your_qa_history[1] :
             Lower(action.text[1]) # Lower(game_state.your_qa_history[1][i].question)

\* C30: after any sequence of callbacks, on_round_start leaves the passcode
\* and ER-diagnosis agents as freshly constructed and the NIL agent as
\* round_info alone determines; from then on the agent is in the state of,
\* and answers every turn like, a second instance constructed at that
\* on_round_start and given the same calls.
C30_NoLeakBetweenRounds ==
    [][/\ apc' = "started" =>
              /\ agent # "nil_recruitment_simple_agent" => self' = AskNew(agent)
              /\ agent = "nil_recruitment_simple_agent" => self' = NilOnRoundStart(NilNew, round_info'[1])
       /\ fresh' # Absent => self' = fresh'[1]
       /\ (apc' = "returned" /\ fresh # Absent) => action' = AskOnTurn(agent, fresh[1], game_state').action
    ]_vars

\* C30 witness: on_round_start has just returned to an ER-diagnosis agent
\* whose last round had two questions answered, and the agent is as
\* freshly constructed.
C30_Witness ==
    /\ apc = "started"
    /\ agent = "er_diagnosis_simple_agent"
    /\ Len(history) >= 2
    /\ self = ErNew

====
